---- MODULE Spec2Model ----
(***************************************************************************)
(* A model of serde_bson: the document serializer (src/src/ser.rs) run     *)
(* over the two sinks of src/src/byte.rs by the entry points of            *)
(* src/src/lib.rs, and the tape builder and tape cursor of src/src/de.rs.  *)
(*                                                                         *)
(* A byte buffer is a sequence of items.  An item 0..255 is one byte; a    *)
(* negative item -k stands for a run of k * 2^30 payload bytes whose       *)
(* content is not looked at (the body of a very large string or byte       *)
(* slice).  A usize is kept as two limbs [hi, lo] with value               *)
(* hi * 2^30 + lo, so lengths beyond the signed 32-bit range keep their    *)
(* exact value.                                                            *)
(***************************************************************************)
EXTENDS Integers, Sequences, FiniteSets

VARIABLES
    val,      \* the value handed to to_string / serialised_size_of
    prior,    \* what the caller's output buffer held before to_string
    sink,     \* the caller's output BytesMut (its items)
    enc,      \* outcome of to_string: "none" before the call
    size,     \* outcome of serialised_size_of: [st, n]
    data,     \* the input of from_bytes
    want,     \* the type D asked of from_bytes
    dec       \* outcome of from_bytes: [st, val, tape, ...]

vars == <<val, prior, sink, enc, size, data, want, dec>>

(***************************************************************************)
(* Bounds of the model.                                                    *)
(***************************************************************************)
MaxSeqLen == 2
MaxLongSeq == 11
MaxBody == 3
MaxOps == 4
MaxScan == 2
MaxEntries == 4
MaxCalls == 3

(***************************************************************************)
(* usize arithmetic and the integer conversions of the serializer.         *)
(***************************************************************************)
Limb == 2^30

U(hi, lo) == [hi |-> hi, lo |-> lo]

usize_add(a, b) ==
    LET s == a.lo + b.lo
    IN  [hi |-> a.hi + b.hi + (s \div Limb), lo |-> s % Limb]

\* i32::try_from(usize): Ok below 2^31, Err above
i32_try_from(n) == [ok |-> n.hi <= 1, v |-> (n.hi % 2) * Limb + n.lo]

\* `usize as i32`: keeps the low 32 bits, read as two's complement
as_i32(n) ==
    LET h == n.hi % 4
    IN  IF h >= 2 THEN (h - 4) * Limb + n.lo ELSE h * Limb + n.lo

\* i32::to_le_bytes
to_le_bytes(v) == [i \in 1..4 |-> (v \div (256 ^ (i - 1))) % 256]

\* i64::to_le_bytes, for the values of the model (all within 32 bits)
to_le_bytes_i64(v) ==
    [i \in 1..8 |-> IF i <= 4 THEN (v \div (256 ^ (i - 1))) % 256
                    ELSE IF v < 0 THEN 255 ELSE 0]

\* f32 as f64, on the floats of the model, each given by its IEEE-754 bits
\* (little-endian): 1.0f32 and 0.1f32
f32_as_f64(bits) ==
    CASE bits = <<0, 0, 128, 63>>       -> <<0, 0, 0, 0, 0, 0, 240, 63>>
      [] bits = <<205, 204, 204, 61>>   -> <<0, 0, 0, 160, 153, 153, 185, 63>>
      [] OTHER                          -> <<0, 0, 0, 0, 0, 0, 0, 0>>

RECURSIVE itoa_format(_)
\* a formatter that drops every digit but the last
itoa_last_digit(i) == <<48 + (i % 10)>>

itoa_format(i) ==
    IF i < 10 THEN <<48 + i>> ELSE itoa_format(i \div 10) \o <<48 + (i % 10)>>

RECURSIVE run_sum(_, _)
\* the 2^30-byte units of the run items of s at the indices I
run_sum(s, I) ==
    IF I = {} THEN 0
    ELSE LET i == CHOOSE j \in I : TRUE
         IN  (-s[i]) + run_sum(s, I \ {i})

\* s.len() of a slice given by its items
slice_len(s) ==
    LET runs == {i \in 1..Len(s) : s[i] < 0}
    IN  U(run_sum(s, runs), Len(s) - Cardinality(runs))

(***************************************************************************)
(* byte.rs: the sink capability set and its two implementations.           *)
(***************************************************************************)
\* What has been done to a buffer, kept beside its content: how many
\* split_off calls deep it is, whether a buffer split from it is still
\* outstanding, how many split_off and unsplit calls it has seen (those of
\* the buffers merged into it included), and whether every call so far came
\* in order: no write or patch while a split is outstanding, every split_off
\* at the current length, every unsplit of the one outstanding buffer, itself
\* with none outstanding.
History(depth) ==
    [depth |-> depth, open |-> FALSE, splits |-> 0, merges |-> 0, ok |-> TRUE]

\* a write or a patch through b
written_to(b) == [b EXCEPT !.hist.ok = @ /\ ~b.hist.open]

BytesMut(items) ==
    [impl |-> "BytesMut", data |-> items, bytes |-> U(0, 0), fake_byte |-> 0,
     hist |-> History(0)]

CountingBytes(n) ==
    [impl |-> "CountingBytes", data |-> <<>>, bytes |-> n, fake_byte |-> 0,
     hist |-> History(0)]

\* a counting put_slice that counts the call, not the bytes
put_slice_counting_calls(b, s) ==
    IF b.impl = "BytesMut" THEN written_to([b EXCEPT !.data = @ \o s])
    ELSE written_to([b EXCEPT !.bytes = usize_add(@, U(0, 1))])

put_slice(b, s) ==
    IF b.impl = "BytesMut" THEN written_to([b EXCEPT !.data = @ \o s])
    ELSE written_to([b EXCEPT !.bytes = usize_add(@, slice_len(s))])

put_u8(b, v) ==
    IF b.impl = "BytesMut" THEN written_to([b EXCEPT !.data = Append(@, v)])
    ELSE written_to([b EXCEPT !.bytes = usize_add(@, U(0, 1))])

put_i32_le(b, v) ==
    IF b.impl = "BytesMut" THEN written_to([b EXCEPT !.data = @ \o to_le_bytes(v)])
    ELSE written_to([b EXCEPT !.bytes = usize_add(@, U(0, 4))])

put_i64_le(b, v) ==
    IF b.impl = "BytesMut"
    THEN written_to([b EXCEPT !.data = @ \o to_le_bytes_i64(v)])
    ELSE written_to([b EXCEPT !.bytes = usize_add(@, U(0, 8))])

\* v is the f64 given by its 8 bytes
put_f64_le(b, v) ==
    IF b.impl = "BytesMut" THEN written_to([b EXCEPT !.data = @ \o v])
    ELSE written_to([b EXCEPT !.bytes = usize_add(@, U(0, 8))])

buf_len(b) == IF b.impl = "BytesMut" THEN slice_len(b.data) ELSE b.bytes

\* the number of leading items of s that lie before byte offset `at`
items_before(s, at) ==
    IF slice_len(s) = at THEN Len(s)
    ELSE CHOOSE k \in 0..Len(s) : slice_len(SubSeq(s, 1, k)) = at

\* split_off(at): [self |-> what stays, out |-> what is detached]
split_off(b, at) ==
    LET Kept(h) ==
            [h EXCEPT !.open = TRUE, !.splits = @ + 1,
                      !.ok = @ /\ ~h.open /\ at = buf_len(b)]
        Detached(d) == [d EXCEPT !.hist = History(b.hist.depth + 1)]
    IN  IF b.impl = "BytesMut"
        THEN LET k == items_before(b.data, at)
             IN  [self |-> [b EXCEPT !.data = SubSeq(@, 1, k),
                                     !.hist = Kept(@)],
                  out  |-> Detached(BytesMut(SubSeq(b.data, k + 1, Len(b.data))))]
        ELSE [self |-> [b EXCEPT !.hist = Kept(@)],
              out  |-> Detached(CountingBytes(U(0, 0)))]

\* the history of b after other has been merged into it
merged(h, o) ==
    [h EXCEPT !.open = FALSE,
              !.splits = @ + o.splits,
              !.merges = @ + o.merges + 1,
              !.ok = @ /\ o.ok /\ h.open /\ ~o.open /\ o.depth = h.depth + 1]

\* an unsplit whose counting implementation forgets the detached count
unsplit_forgetful(b, other) ==
    IF b.impl = "BytesMut"
    THEN [b EXCEPT !.data = @ \o other.data, !.hist = merged(@, other.hist)]
    ELSE [b EXCEPT !.hist = merged(@, other.hist)]

unsplit(b, other) ==
    IF b.impl = "BytesMut"
    THEN [b EXCEPT !.data = @ \o other.data, !.hist = merged(@, other.hist)]
    ELSE [b EXCEPT !.bytes = usize_add(@, other.bytes),
                   !.hist = merged(@, other.hist)]

\* *byte_mut(at), read
byte_at(b, at) == IF b.impl = "BytesMut" THEN b.data[at + 1] ELSE 0

\* *byte_mut(at) = v
byte_set(b, at, v) ==
    IF b.impl = "BytesMut" THEN written_to([b EXCEPT !.data[at + 1] = v])
    ELSE written_to([b EXCEPT !.fake_byte = v])

(***************************************************************************)
(* Values, as the calls the value-shape protocol makes for them.  k is the *)
(* shape, n an integer (or 0/1 for a boolean), s the items of a string, of *)
(* a byte slice or of a float's bits, xs the children, keys the field      *)
(* names of xs, name the variant name.                                     *)
(***************************************************************************)
V(k, n, s, xs, keys, name) ==
    [k |-> k, n |-> n, s |-> s, xs |-> xs, keys |-> keys, name |-> name]

(***************************************************************************)
(* ser.rs: DocumentKey and the key-writing macro.                          *)
(***************************************************************************)
NoKey == [some |-> FALSE, int |-> FALSE, s |-> <<>>, i |-> 0]
StrKey(s) == [some |-> TRUE, int |-> FALSE, s |-> s, i |-> 0]
IntKey(i) == [some |-> TRUE, int |-> TRUE, s |-> <<>>, i |-> i]

\* a Result<(), Error> (or a panic) with the sink as the call left it;
\* guard: every length patch so far found its four placeholder bytes zero
R(st, out, guard) == [st |-> st, out |-> out, guard |-> guard]

write_to_buf(key, buf) ==
    IF key.int THEN put_slice(buf, itoa_format(key.i)) ELSE put_slice(buf, key.s)

\* a key writer that takes the absence of a key for an empty key
write_key_or_empty(id, key, output) ==
    R("Ok", put_u8(write_to_buf(key, put_u8(output, id)), 0), TRUE)

write_key_or_error(id, key, output) ==
    IF key.some
    THEN R("Ok", put_u8(write_to_buf(key, put_u8(output, id)), 0), TRUE)
    ELSE R("NotSerializingStruct", output, TRUE)

(***************************************************************************)
(* ser.rs: start_document / terminate_document.                            *)
(* (A LET operator with a parameter is how a value computed once is used   *)
(* several times.)                                                         *)
(***************************************************************************)
\* a start_document that reserves a length field which is not zero
start_document_unzeroed(buffer) ==
    LET Split(sp) == [buffer |-> sp.self, doc_output |-> put_i32_le(sp.out, 1)]
    IN  Split(split_off(buffer, buf_len(buffer)))

start_document(buffer) ==
    LET Split(sp) == [buffer |-> sp.self, doc_output |-> put_i32_le(sp.out, 0)]
    IN  Split(split_off(buffer, buf_len(buffer)))

RECURSIVE patch_length(_, _, _, _)
\* the loop of terminate_document over the four bytes of the length
patch_length(document, le, i, guard) ==
    IF i = 4 THEN [document |-> document, guard |-> guard]
    ELSE patch_length(byte_set(document, i, le[i + 1]), le, i + 1,
                      guard /\ byte_at(document, i) = 0)

\* a terminate_document that writes the terminator to the parent
terminate_document_in_parent(original_buffer, document) ==
    LET Merge(p) ==
            [buffer |-> unsplit(put_u8(original_buffer, 0), p.document),
             guard |-> p.guard]
        Patch(d) ==
            Merge(patch_length(d, to_le_bytes(as_i32(buf_len(d))), 0, TRUE))
    IN  Patch(document)

terminate_document(original_buffer, document) ==
    LET Merge(p) ==
            [buffer |-> unsplit(original_buffer, p.document), guard |-> p.guard]
        Patch(d) ==
            Merge(patch_length(d, to_le_bytes(as_i32(buf_len(d))), 0, TRUE))
    IN  Patch(put_u8(document, 0))

(***************************************************************************)
(* ser.rs: impl serde::Serializer for Serializer, the scalar methods.      *)
(***************************************************************************)
serialize_bool(key, output, v) ==
    LET Go(w) == IF w.st # "Ok" THEN w ELSE R("Ok", put_u8(w.out, v), TRUE)
    IN  Go(write_key_or_error(8, key, output))

serialize_i32(key, output, v) ==
    LET Go(w) == IF w.st # "Ok" THEN w ELSE R("Ok", put_i32_le(w.out, v), TRUE)
    IN  Go(write_key_or_error(16, key, output))

serialize_i8(key, output, v) == serialize_i32(key, output, v)

serialize_i16(key, output, v) == serialize_i32(key, output, v)

serialize_i64(key, output, v) ==
    LET Go(w) == IF w.st # "Ok" THEN w ELSE R("Ok", put_i64_le(w.out, v), TRUE)
    IN  Go(write_key_or_error(18, key, output))

serialize_f64(key, output, v) ==
    LET Go(w) == IF w.st # "Ok" THEN w ELSE R("Ok", put_f64_le(w.out, v), TRUE)
    IN  Go(write_key_or_error(1, key, output))

serialize_f32(key, output, v) == serialize_f64(key, output, f32_as_f64(v))

serialize_str(key, output, v) ==
    LET Go(w, len) ==
            IF w.st # "Ok" THEN w
            ELSE IF ~len.ok THEN R("panic", w.out, TRUE)
            ELSE R("Ok", put_u8(put_slice(put_i32_le(w.out, len.v), v), 0), TRUE)
    IN  Go(write_key_or_error(2, key, output),
           i32_try_from(usize_add(slice_len(v), U(0, 1))))

serialize_bytes(key, output, v) ==
    LET Go(w, len) ==
            IF w.st # "Ok" THEN w
            ELSE IF ~len.ok THEN R("panic", w.out, TRUE)
            ELSE R("Ok", put_slice(put_u8(put_i32_le(w.out, len.v), 0), v), TRUE)
    IN  Go(write_key_or_error(5, key, output), i32_try_from(slice_len(v)))

serialize_none(key, output) == write_key_or_error(10, key, output)

serialize_unit(key, output) == serialize_none(key, output)

serialize_unit_struct(key, output) == serialize_none(key, output)

serialize_unit_variant(key, output, variant) == serialize_str(key, output, variant)

\* an unsigned integer written as if it were an int32
unsigned_as_i32(key, output) ==
    LET Go(r) == IF r.st # "Ok" THEN r ELSE R("Ok", put_i32_le(r.out, 1), TRUE)
    IN  Go(write_key_or_error(16, key, output))

serialize_unsigned(key, output) == R("UnsignedIntNotInSpec", output, TRUE)

serialize_char(key, output) == R("UnsignedIntNotInSpec", output, TRUE)

\* todo!("map")
serialize_map(key, output) == R("panic", output, TRUE)

(***************************************************************************)
(* ser.rs: the container methods, each returning its compound serializer.  *)
(***************************************************************************)
\* `if self.key.is_some() { write_key_or_error!(id, self.key, self.output) }`
write_own_key(id, key, output) ==
    IF key.some THEN write_key_or_error(id, key, output).out ELSE output

serialize_seq(key, output) ==
    LET Go(sd) == [original_output |-> sd.buffer, doc_output |-> sd.doc_output,
                   key |-> 0]
    IN  Go(start_document(write_own_key(4, key, output)))

serialize_tuple(key, output) == serialize_seq(key, output)

serialize_tuple_struct(key, output) == serialize_seq(key, output)

serialize_struct(key, output) ==
    LET Go(sd) == [original_output |-> sd.buffer, doc_output |-> sd.doc_output]
    IN  Go(start_document(write_own_key(3, key, output)))

\* a tuple variant whose positional values go under the document tag
tuple_variant_as_document(key, output, variant) ==
    LET Inner(sd, sd2) ==
            [original_output |-> sd.buffer, array_output |-> sd2.doc_output,
             doc_output |-> sd2.buffer, key |-> 0]
        Outer(sd) ==
            Inner(sd, start_document(
                          write_key_or_error(3, StrKey(variant), sd.doc_output).out))
    IN  Outer(start_document(write_own_key(3, key, output)))

serialize_tuple_variant(key, output, variant) ==
    LET Inner(sd, sd2) ==
            [original_output |-> sd.buffer, array_output |-> sd2.doc_output,
             doc_output |-> sd2.buffer, key |-> 0]
        Outer(sd) ==
            Inner(sd, start_document(
                          write_key_or_error(4, StrKey(variant), sd.doc_output).out))
    IN  Outer(start_document(write_own_key(3, key, output)))

serialize_struct_variant(key, output, variant) ==
    LET Inner(sd, sd2) ==
            [original_output |-> sd.buffer, nested_doc_output |-> sd2.doc_output,
             doc_output |-> sd2.buffer]
        Outer(sd) ==
            Inner(sd, start_document(
                          write_key_or_error(3, StrKey(variant), sd.doc_output).out))
    IN  Outer(start_document(write_own_key(3, key, output)))

SeqSerializer_end(ser, guard) ==
    LET Go(t) == R("Ok", t.buffer, guard /\ t.guard)
    IN  Go(terminate_document(ser.original_output, ser.doc_output))

StructSerializer_end(ser, guard) ==
    LET Go(t) == R("Ok", t.buffer, guard /\ t.guard)
    IN  Go(terminate_document(ser.original_output, ser.doc_output))

TupleVariantSerializer_end(ser, guard) ==
    LET Last(t1, t2) == R("Ok", t2.buffer, guard /\ t1.guard /\ t2.guard)
        First(t1) == Last(t1, terminate_document(ser.original_output, t1.buffer))
    IN  First(terminate_document(ser.doc_output, ser.array_output))

StructVariantSerializer_end(ser, guard) ==
    LET Last(t1, t2) == R("Ok", t2.buffer, guard /\ t1.guard /\ t2.guard)
        First(t1) == Last(t1, terminate_document(ser.original_output, t1.buffer))
    IN  First(terminate_document(ser.doc_output, ser.nested_doc_output))

RECURSIVE serialize(_, _, _)
RECURSIVE serialize_elements(_, _, _, _)
RECURSIVE serialize_fields(_, _, _, _)

\* SeqSerializer::serialize_element / TupleVariantSerializer::serialize_field:
\* the value under the decimal key, then key += 1
serialize_element(doc_output, key, value) ==
    LET Go(r) == [st |-> r.st, doc_output |-> r.out, guard |-> r.guard,
                  key |-> IF r.st = "Ok" THEN key + 1 ELSE key]
    IN  Go(serialize(value, IntKey(key), doc_output))

\* StructSerializer::serialize_field / StructVariantSerializer::serialize_field
serialize_field(doc_output, key, value) ==
    LET Go(r) == [st |-> r.st, doc_output |-> r.out, guard |-> r.guard]
    IN  Go(serialize(value, StrKey(key), doc_output))

\* the value's loop over its elements, stopping at the first failure (`?`)
serialize_elements(xs, doc_output, key, guard) ==
    LET Go(e) ==
            IF e.st # "Ok"
            THEN [st |-> e.st, doc_output |-> e.doc_output, key |-> e.key,
                  guard |-> guard /\ e.guard]
            ELSE serialize_elements(Tail(xs), e.doc_output, e.key,
                                    guard /\ e.guard)
    IN  IF xs = <<>>
        THEN [st |-> "Ok", doc_output |-> doc_output, key |-> key,
              guard |-> guard]
        ELSE Go(serialize_element(doc_output, key, Head(xs)))

\* the value's loop over its named fields, stopping at the first failure
serialize_fields(xs, keys, doc_output, guard) ==
    LET Go(f) ==
            IF f.st # "Ok"
            THEN [st |-> f.st, doc_output |-> f.doc_output,
                  guard |-> guard /\ f.guard]
            ELSE serialize_fields(Tail(xs), Tail(keys), f.doc_output,
                                  guard /\ f.guard)
    IN  IF xs = <<>>
        THEN [st |-> "Ok", doc_output |-> doc_output, guard |-> guard]
        ELSE Go(serialize_field(doc_output, Head(keys), Head(xs)))

serialize_newtype_variant(key, output, variant, value) ==
    LET End(ser, f) ==
            IF f.st # "Ok" THEN R(f.st, ser.original_output, f.guard)
            ELSE StructSerializer_end([ser EXCEPT !.doc_output = f.doc_output],
                                      f.guard)
        Field(ser) == End(ser, serialize_field(ser.doc_output, variant, value))
    IN  Field(serialize_struct(key, output))

\* a sequence, tuple or tuple struct: its elements, then end()
serialize_as_seq(ser, xs) ==
    LET End(r) ==
            IF r.st # "Ok" THEN R(r.st, ser.original_output, r.guard)
            ELSE SeqSerializer_end([ser EXCEPT !.doc_output = r.doc_output,
                                               !.key = r.key], r.guard)
    IN  End(serialize_elements(xs, ser.doc_output, ser.key, TRUE))

serialize_as_tuple_variant(ser, xs) ==
    LET End(r) ==
            IF r.st # "Ok" THEN R(r.st, ser.original_output, r.guard)
            ELSE TupleVariantSerializer_end(
                     [ser EXCEPT !.array_output = r.doc_output, !.key = r.key],
                     r.guard)
    IN  End(serialize_elements(xs, ser.array_output, ser.key, TRUE))

serialize_as_struct(ser, keys, xs) ==
    LET End(r) ==
            IF r.st # "Ok" THEN R(r.st, ser.original_output, r.guard)
            ELSE StructSerializer_end([ser EXCEPT !.doc_output = r.doc_output],
                                      r.guard)
    IN  End(serialize_fields(xs, keys, ser.doc_output, TRUE))

serialize_as_struct_variant(ser, keys, xs) ==
    LET End(r) ==
            IF r.st # "Ok" THEN R(r.st, ser.original_output, r.guard)
            ELSE StructVariantSerializer_end(
                     [ser EXCEPT !.nested_doc_output = r.doc_output], r.guard)
    IN  End(serialize_fields(xs, keys, ser.nested_doc_output, TRUE))

\* value.serialize(Serializer { key, output }): the calls a value of each
\* shape makes on the serializer
serialize(v, key, output) ==
    CASE v.k = "bool" -> serialize_bool(key, output, v.n)
      [] v.k = "i8"   -> serialize_i8(key, output, v.n)
      [] v.k = "i16"  -> serialize_i16(key, output, v.n)
      [] v.k = "i32"  -> serialize_i32(key, output, v.n)
      [] v.k = "i64"  -> serialize_i64(key, output, v.n)
      [] v.k = "f32"  -> serialize_f32(key, output, v.s)
      [] v.k = "f64"  -> serialize_f64(key, output, v.s)
      [] v.k = "str"  -> serialize_str(key, output, v.s)
      [] v.k = "bytes" -> serialize_bytes(key, output, v.s)
      [] v.k = "none" -> serialize_none(key, output)
      [] v.k = "some" -> serialize(v.xs[1], key, output)
      [] v.k = "unit" -> serialize_unit(key, output)
      [] v.k = "unit_struct" -> serialize_unit_struct(key, output)
      [] v.k = "unit_variant" -> serialize_unit_variant(key, output, v.name)
      [] v.k = "newtype_struct" -> serialize(v.xs[1], key, output)
      [] v.k = "newtype_variant" ->
            serialize_newtype_variant(key, output, v.name, v.xs[1])
      [] v.k = "seq" -> serialize_as_seq(serialize_seq(key, output), v.xs)
      [] v.k = "tuple" -> serialize_as_seq(serialize_tuple(key, output), v.xs)
      [] v.k = "tuple_struct" ->
            serialize_as_seq(serialize_tuple_struct(key, output), v.xs)
      [] v.k = "tuple_variant" ->
            serialize_as_tuple_variant(
                serialize_tuple_variant(key, output, v.name), v.xs)
      [] v.k = "struct" ->
            serialize_as_struct(serialize_struct(key, output), v.keys, v.xs)
      [] v.k = "struct_variant" ->
            serialize_as_struct_variant(
                serialize_struct_variant(key, output, v.name), v.keys, v.xs)
      [] v.k = "map" -> serialize_map(key, output)
      [] v.k = "char" -> serialize_char(key, output)
      [] OTHER -> serialize_unsigned(key, output)

(***************************************************************************)
(* lib.rs: the two entry points.                                           *)
(***************************************************************************)
serialised_size_of(v) ==
    LET Go(r) == [st |-> r.st, n |-> IF r.st = "Ok" THEN r.out.bytes ELSE U(0, 0),
                  guard |-> r.guard]
    IN  Go(serialize(v, NoKey, CountingBytes(U(0, 0))))

\* a to_string that empties the caller's buffer before it measures
to_string_clearing(v, out) ==
    LET Real(r) == [st |-> r.st, output |-> r.out.data, guard |-> r.guard]
        Pre(pre) ==
            IF pre.st # "Ok" THEN [st |-> pre.st, output |-> <<>>, guard |-> TRUE]
            ELSE Real(serialize(v, NoKey, BytesMut(<<>>)))
    IN  Pre(serialised_size_of(v))

\* output.reserve(serialised_size_of(val)?), then the real pass
to_string(v, out) ==
    LET Real(r) == [st |-> r.st, output |-> r.out.data, guard |-> r.guard]
        Pre(pre) ==
            IF pre.st # "Ok" THEN [st |-> pre.st, output |-> out, guard |-> TRUE]
            ELSE Real(serialize(v, NoKey, BytesMut(out)))
    IN  Pre(serialised_size_of(v))

(***************************************************************************)
(* The values the model encodes.                                           *)
(***************************************************************************)
Bool(b)  == V("bool", b, <<>>, <<>>, <<>>, <<>>)
I8(n)    == V("i8", n, <<>>, <<>>, <<>>, <<>>)
I16(n)   == V("i16", n, <<>>, <<>>, <<>>, <<>>)
I32(n)   == V("i32", n, <<>>, <<>>, <<>>, <<>>)
I64(n)   == V("i64", n, <<>>, <<>>, <<>>, <<>>)
F32(s)   == V("f32", 0, s, <<>>, <<>>, <<>>)
F64(s)   == V("f64", 0, s, <<>>, <<>>, <<>>)
Str(s)   == V("str", 0, s, <<>>, <<>>, <<>>)
Bytes(s) == V("bytes", 0, s, <<>>, <<>>, <<>>)
NoneV    == V("none", 0, <<>>, <<>>, <<>>, <<>>)
SomeV(x) == V("some", 0, <<>>, <<x>>, <<>>, <<>>)
UnitV    == V("unit", 0, <<>>, <<>>, <<>>, <<>>)
UnitStruct == V("unit_struct", 0, <<>>, <<>>, <<>>, <<>>)
Unsigned(k, n) == V(k, n, <<>>, <<>>, <<>>, <<>>)
CharV(n) == V("char", n, <<>>, <<>>, <<>>, <<>>)
MapV     == V("map", 0, <<>>, <<>>, <<>>, <<>>)
UnitVariant(name) == V("unit_variant", 0, <<>>, <<>>, <<>>, name)
NewtypeStruct(x) == V("newtype_struct", 0, <<>>, <<x>>, <<>>, <<>>)
NewtypeVariant(name, x) == V("newtype_variant", 0, <<>>, <<x>>, <<>>, name)
SeqV(xs) == V("seq", 0, <<>>, xs, <<>>, <<>>)
TupleV(xs) == V("tuple", 0, <<>>, xs, <<>>, <<>>)
TupleStruct(xs) == V("tuple_struct", 0, <<>>, xs, <<>>, <<>>)
TupleVariant(name, xs) == V("tuple_variant", 0, <<>>, xs, <<>>, name)
StructV(keys, xs) == V("struct", 0, <<>>, xs, keys, <<>>)
StructVariant(name, keys, xs) == V("struct_variant", 0, <<>>, xs, keys, name)

\* the names of the test enum of lib.rs: Abc, Def, Ghi, Jkl
Abc == <<65, 98, 99>>
Def == <<68, 101, 102>>
Ghi == <<71, 104, 105>>
Jkl == <<74, 107, 108>>

\* the field names "a", "b", "c", ...
FieldNames(n) == [i \in 1..n |-> <<96 + i>>]

\* 1.0f32, 0.1f32, 1.0f64, -2.5f64, by their bits
Floats ==
    {F32(<<0, 0, 128, 63>>), F32(<<205, 204, 204, 61>>),
     F64(<<0, 0, 0, 0, 0, 0, 240, 63>>), F64(<<0, 0, 0, 0, 0, 0, 4, 192>>)}

\* a run item -1 is 2^30 bytes, -2 is 2^31 bytes
Strings == {Str(<<>>), Str(<<104, 105>>), Str(<<-1>>), Str(<<-2>>)}

ByteSlices == {Bytes(<<>>), Bytes(<<1, 0, 255>>), Bytes(<<-1>>), Bytes(<<-2>>)}

Rejected ==
    {Unsigned("u8", 1), Unsigned("u16", 1), Unsigned("u32", 1),
     Unsigned("u64", 1), CharV(97)}

Prims ==
    {Bool(0), Bool(1), I8(-1), I16(300), I32(1999), I32(-1), I64(7), I64(-2),
     NoneV, UnitV, UnitStruct, UnitVariant(Abc), MapV}
    \cup Floats \cup Strings \cup ByteSlices \cup Rejected

\* the element values of the sequences and structs of the model
Small ==
    {I32(1999), Str(<<104, 105>>), Bytes(<<-1>>), NoneV, Unsigned("u8", 1)}

Elems(n) == UNION {[1..m -> Small] : m \in 0..n}

Level1 ==
    Prims
    \cup {SomeV(x) : x \in Prims}
    \cup {NewtypeStruct(x) : x \in Prims}
    \cup {NewtypeVariant(Def, x) : x \in Prims}
    \cup {SeqV(xs) : xs \in Elems(MaxSeqLen)}
    \cup {TupleV(xs) : xs \in Elems(MaxSeqLen)}
    \cup {TupleStruct(xs) : xs \in Elems(MaxSeqLen)}
    \cup {TupleVariant(Ghi, xs) : xs \in Elems(MaxSeqLen)}
    \cup {StructV(FieldNames(Len(xs)), xs) : xs \in Elems(MaxSeqLen)}
    \cup {StructVariant(Jkl, FieldNames(Len(xs)), xs) : xs \in Elems(MaxSeqLen)}
    \cup {SeqV([i \in 1..n |-> NoneV]) : n \in (MaxLongSeq - 1)..MaxLongSeq}

Level2 ==
    {StructV(<<<<102>>>>, <<x>>) : x \in Level1}
    \cup {StructV(<<<<102>>, <<103>>>>, <<I32(-1), x>>) : x \in Level1}
    \cup {SeqV(<<x>>) : x \in Level1}
    \cup {SomeV(x) : x \in Level1}
    \cup {NewtypeVariant(Def, x) : x \in Level1}
    \cup {TupleVariant(Ghi, <<x>>) : x \in Level1}
    \cup {StructVariant(Jkl, <<<<102>>>>, <<x>>) : x \in Level1}

\* values whose parts stop the serializer in a chosen order
Staged ==
    {StructV(FieldNames(2), <<Str(<<-2>>), Unsigned("u8", 1)>>),
     StructV(FieldNames(2), <<Bytes(<<-2>>), CharV(97)>>),
     StructV(FieldNames(2), <<MapV, Unsigned("u64", 1)>>),
     TupleV(<<Unsigned("u16", 1), Str(<<-2>>)>>),
     StructV(FieldNames(2), <<I32(1999), SeqV(<<Bytes(<<-1>>), Bytes(<<-1>>)>>)>>),
     StructV(FieldNames(4), [i \in 1..4 |-> Bytes(<<-1>>)])}

Values == Level1 \cup Level2 \cup Staged

\* what the caller's buffer may already hold
Priors == {<<>>, <<170>>}

(***************************************************************************)
(* de.rs: the tape and the tape builder.  A tape entry is [t, n, s]: its   *)
(* kind, its number (a boolean as 0/1, an i32, a binary's subtype) and its *)
(* bytes (a key, a string, a binary, or the 8 bytes of a 64-bit scalar).   *)
(***************************************************************************)
Tape(t, n, s) == [t |-> t, n |-> n, s |-> s]

\* u32::from_le_bytes(..) as usize
u32_from_le_bytes(b) ==
    U(b[4] \div 64, (b[4] % 64) * 16777216 + b[3] * 65536 + b[2] * 256 + b[1])

i32_from_le_bytes(b) ==
    b[1] + b[2] * 256 + b[3] * 65536
    + (IF b[4] >= 128 THEN b[4] - 256 ELSE b[4]) * 16777216

\* simdutf8::basic::from_utf8(..).is_ok(), on the strings of the model: their
\* bytes are ASCII or 0xFF, which no UTF-8 string holds
from_utf8_ok(s) == \A i \in 1..Len(s) : s[i] < 128

\* memchr(b'\0', &input[position..]): the offset of the first NUL, -1 for None
memchr0(input, position) ==
    LET hits == {i \in (position + 1)..Len(input) : input[i] = 0}
    IN  IF hits = {} THEN -1
        ELSE (CHOOSE i \in hits : \A j \in hits : i <= j) - (position + 1)

\* &input[from..to] of a slice (0-based, half open)
slice(input, from, to) == SubSeq(input, from + 1, to)

\* take_cstring: [ok, s, position]; not ok is the panic of expect / unwrap
take_cstring(input, position) ==
    LET Go(idx) ==
            IF idx < 0 \/ ~from_utf8_ok(slice(input, position, position + idx))
            THEN [ok |-> FALSE, s |-> <<>>, position |-> position]
            ELSE [ok |-> TRUE, s |-> slice(input, position, position + idx),
                  position |-> position + idx + 1]
    IN  Go(memchr0(input, position))

\* take_bytes: [ok, s, position]; not ok is the slice-index panic
take_bytes(input, position, n) ==
    IF position + n > Len(input)
    THEN [ok |-> FALSE, s |-> <<>>, position |-> position]
    ELSE [ok |-> TRUE, s |-> slice(input, position, position + n),
          position |-> position + n]

\* what the builder has so far: skipped counts the tags that matched `_ => {}`
Built(st, tape, skipped) == [st |-> st, tape |-> tape, skipped |-> skipped]

\* a usize no larger than the input, as a plain number; anything larger as
\* one more than the input's length
clamp(n, input) ==
    IF n.hi > 0 \/ n.lo > Len(input) THEN Len(input) + 1 ELSE n.lo

\* one scalar arm of the match: the key, then n bytes, then the two pushes
fixed_arm(input, position, t, n) ==
    LET Val(key, v) ==
            IF ~v.ok THEN [ok |-> FALSE, position |-> position, push |-> <<>>]
            ELSE [ok |-> TRUE, position |-> v.position,
                  push |-> <<Tape("Key", 0, key.s),
                             CASE t = "I32" -> Tape(t, i32_from_le_bytes(v.s), <<>>)
                               [] t \in {"DocumentStart", "ArrayStart", "Null"} ->
                                    Tape(t, 0, <<>>)
                               [] OTHER -> Tape(t, 0, v.s)>>]
        Key(key) ==
            IF ~key.ok THEN [ok |-> FALSE, position |-> position, push |-> <<>>]
            ELSE Val(key, take_bytes(input, key.position, n))
    IN  Key(take_cstring(input, position))

\* the 0x02 arm
string_arm(input, position) ==
    LET Body(key, len, pos) ==
            \* &input[position..position + length - 1]
            IF len = 0 \/ pos + len - 1 > Len(input)
               \/ ~from_utf8_ok(slice(input, pos, pos + len - 1))
            THEN [ok |-> FALSE, position |-> position, push |-> <<>>]
            ELSE [ok |-> TRUE, position |-> pos + len,
                  push |-> <<Tape("Key", 0, key.s),
                             Tape("String", 0, slice(input, pos, pos + len - 1))>>]
        Length(key, l) ==
            IF ~l.ok THEN [ok |-> FALSE, position |-> position, push |-> <<>>]
            ELSE Body(key, clamp(u32_from_le_bytes(l.s), input) , l.position)
        Key(key) ==
            IF ~key.ok THEN [ok |-> FALSE, position |-> position, push |-> <<>>]
            ELSE Length(key, take_bytes(input, key.position, 4))
    IN  Key(take_cstring(input, position))

\* the 0x05 arm
binary_arm(input, position) ==
    LET Body(key, len, pos) ==
            \* input[position], then &input[position + 1..position + 1 + length]
            IF pos >= Len(input) \/ pos + 1 + len > Len(input)
            THEN [ok |-> FALSE, position |-> position, push |-> <<>>]
            ELSE [ok |-> TRUE, position |-> pos + 1 + len,
                  push |-> <<Tape("Key", 0, key.s),
                             Tape("Binary", input[pos + 1],
                                  slice(input, pos + 1, pos + 1 + len))>>]
        Length(key, l) ==
            IF ~l.ok THEN [ok |-> FALSE, position |-> position, push |-> <<>>]
            ELSE Body(key, clamp(u32_from_le_bytes(l.s), input), l.position)
        Key(key) ==
            IF ~key.ok THEN [ok |-> FALSE, position |-> position, push |-> <<>>]
            ELSE Length(key, take_bytes(input, key.position, 4))
    IN  Key(take_cstring(input, position))

\* a 0x08 arm that reads the value and leaves the cursor on it
boolean_arm_unadvanced(input, position) ==
    LET Key(key) ==
            IF ~key.ok \/ key.position >= Len(input)
            THEN [ok |-> FALSE, position |-> position, push |-> <<>>]
            ELSE [ok |-> TRUE, position |-> key.position,
                  push |-> <<Tape("Key", 0, key.s),
                             Tape("Boolean",
                                  IF input[key.position + 1] = 1 THEN 1 ELSE 0,
                                  <<>>)>>]
    IN  Key(take_cstring(input, position))

\* the 0x08 arm
boolean_arm(input, position) ==
    LET Key(key) ==
            IF ~key.ok \/ key.position >= Len(input)
            THEN [ok |-> FALSE, position |-> position, push |-> <<>>]
            ELSE [ok |-> TRUE, position |-> key.position + 1,
                  push |-> <<Tape("Key", 0, key.s),
                             Tape("Boolean",
                                  IF input[key.position + 1] = 1 THEN 1 ELSE 0,
                                  <<>>)>>]
    IN  Key(take_cstring(input, position))

\* the tags the match has an arm for, 0x00 apart
SupportedTags == {1, 2, 3, 4, 5, 8, 9, 10, 16, 17, 18}

\* one turn of the loop after `position += 1`, for the tag just read
match_tag(input, position, tag) ==
    CASE tag = 0  -> [ok |-> TRUE, position |-> position,
                      push |-> <<Tape("DocumentEnd", 0, <<>>)>>]
      [] tag = 1  -> fixed_arm(input, position, "Double", 8)
      [] tag = 2  -> string_arm(input, position)
      [] tag = 3  -> fixed_arm(input, position, "DocumentStart", 4)
      [] tag = 4  -> fixed_arm(input, position, "ArrayStart", 4)
      [] tag = 5  -> binary_arm(input, position)
      [] tag = 8  -> boolean_arm(input, position)
      [] tag = 9  -> fixed_arm(input, position, "UtcDateTime", 8)
      [] tag = 10 -> fixed_arm(input, position, "Null", 0)
      [] tag = 16 -> fixed_arm(input, position, "I32", 4)
      [] tag = 17 -> fixed_arm(input, position, "Timestamp", 8)
      [] tag = 18 -> fixed_arm(input, position, "I64", 8)
      [] OTHER    -> [ok |-> TRUE, position |-> position, push |-> <<>>]

\* a turn of the loop that leaves the cursor where it was on a tag the match
\* has no arm for
loop_turn_stalling(input, position, tape, skipped) ==
    LET Turn(m, tag) ==
            IF ~m.ok THEN [st |-> "panic", position |-> position, tape |-> tape,
                           skipped |-> skipped]
            ELSE IF tag # 0 /\ tag \notin SupportedTags
            THEN [st |-> "scanning", position |-> position, tape |-> tape,
                  skipped |-> skipped]
            ELSE [st |-> "scanning", position |-> m.position,
                  tape |-> tape \o m.push, skipped |-> skipped]
    IN  Turn(match_tag(input, position + 1, input[position + 1]),
             input[position + 1])

\* one turn of `while position < length - 4 { .. }`, taken when the
\* condition holds: `position += 1`, the match, the pushes
loop_turn(input, position, tape, skipped) ==
    LET tag == input[position + 1]
    IN  CHOOSE t \in
            {IF ~m.ok
             THEN [st |-> "panic", position |-> position, tape |-> tape,
                   skipped |-> skipped]
             ELSE [st |-> "scanning", position |-> m.position,
                   tape |-> tape \o m.push,
                   skipped |-> IF tag # 0 /\ tag \notin SupportedTags
                               THEN skipped + 1 ELSE skipped] :
             m \in {match_tag(input, position + 1, tag)}} : TRUE

RECURSIVE tape_loop(_, _, _, _)
\* `while position < length - 4 { .. }` over input = &input[4..length]
tape_loop(input, position, tape, skipped) ==
    LET Turn(m, tag) ==
            IF ~m.ok THEN Built("panic", tape, skipped)
            ELSE tape_loop(input, m.position, tape \o m.push,
                           IF tag # 0 /\ tag \notin SupportedTags
                           THEN skipped + 1 ELSE skipped)
    IN  IF position >= Len(input) THEN Built("Ok", tape, skipped)
        ELSE Turn(match_tag(input, position + 1, input[position + 1]),
                  input[position + 1])

\* a builder that scans to the end of the input, whatever length it declares
to_tape_unbounded(input) ==
    IF Len(input) < 4 THEN Built("panic", <<>>, 0)
    ELSE tape_loop(slice(input, 4, Len(input)), 0,
                   <<Tape("DocumentStart", 0, <<>>)>>, 0)

to_tape(input) ==
    LET Scan(length) ==
            \* &input[4..length]
            IF length < 4 \/ length > Len(input) THEN Built("panic", <<>>, 0)
            ELSE tape_loop(slice(input, 4, length), 0,
                           <<Tape("DocumentStart", 0, <<>>)>>, 0)
    IN  IF Len(input) < 4 THEN Built("panic", <<>>, 0)
        ELSE Scan(clamp(u32_from_le_bytes(SubSeq(input, 1, 4)), input))

(***************************************************************************)
(* The types D that from_bytes is asked for, as [k, xs, keys, name]: the   *)
(* shape, the types of the children, the field names, the variant name.    *)
(* An enum type is given by the one variant the model looks at; a sequence *)
(* type lists its element types by position (the last one repeats).        *)
(***************************************************************************)
Ty(k, xs, keys, name) == [k |-> k, xs |-> xs, keys |-> keys, name |-> name]

IgnoredAny == Ty("ignored_any", <<>>, <<>>, <<>>)

Handwritten == Ty("handwritten", <<>>, <<>>, <<>>)

EnumKinds == {"unit_variant", "newtype_variant", "tuple_variant", "struct_variant"}

RECURSIVE TypeOf(_)
\* the type whose values have the shape of v
TypeOf(v) ==
    Ty(IF v.k \in {"none", "some"} THEN "option" ELSE v.k,
       [i \in 1..Len(v.xs) |-> TypeOf(v.xs[i])], v.keys, v.name)

(***************************************************************************)
(* The visitors of the value-shape protocol: what a value of each type     *)
(* accepts from the cursor.  Besides the derived visitors there is a       *)
(* visitor written by hand (Handwritten): it accepts any scalar, and its   *)
(* visit_map and visit_seq are not a fixed loop, so the calls it makes on  *)
(* the MapAccess it is given are steps of their own (SpecCursor below).    *)
(***************************************************************************)
\* the outcome of a request on the cursor: the value and the cursor after it
D(st, v, pos) == [st |-> st, val |-> v, pos |-> pos]

Nothing == V("", 0, <<>>, <<>>, <<>>, <<>>)

\* f64 as f32, on the floats of the model
f64_as_f32(bits) ==
    CASE bits = <<0, 0, 0, 0, 0, 0, 240, 63>>       -> <<0, 0, 128, 63>>
      [] bits = <<0, 0, 0, 160, 153, 153, 185, 63>> -> <<205, 204, 204, 61>>
      [] OTHER                                      -> <<0, 0, 0, 0>>

\* whether the 8 bytes of a 64-bit integer are the sign extension of its low 4
fits_i32(b) ==
    \A i \in 5..8 : b[i] = (IF b[4] >= 128 THEN 255 ELSE 0)

int_range_ok(k, n) ==
    CASE k = "i8"  -> n >= -128 /\ n <= 127
      [] k = "i16" -> n >= -32768 /\ n <= 32767
      [] OTHER     -> TRUE

\* visit_i32 / visit_i64 / visit_u64 of the integer visitors (a 64-bit value
\* outside 32 bits keeps its upper four bytes in s)
visit_int(k, e) ==
    CASE e.t = "I32" ->
            IF int_range_ok(k, e.n) THEN D("Ok", V(k, e.n, <<>>, <<>>, <<>>, <<>>), 0)
            ELSE D("Custom", Nothing, 0)
      [] e.t \in {"I64", "UtcDateTime"} ->
            IF fits_i32(e.s) /\ int_range_ok(k, i32_from_le_bytes(e.s))
            THEN D("Ok", V(k, i32_from_le_bytes(e.s), <<>>, <<>>, <<>>, <<>>), 0)
            ELSE IF k = "i64"
            THEN D("Ok", V(k, i32_from_le_bytes(e.s), SubSeq(e.s, 5, 8),
                           <<>>, <<>>, <<>>), 0)
            ELSE D("Custom", Nothing, 0)
      [] e.t = "Timestamp" ->
            IF fits_i32(e.s) /\ e.s[4] < 128
               /\ int_range_ok(k, i32_from_le_bytes(e.s))
            THEN D("Ok", V(k, i32_from_le_bytes(e.s), <<>>, <<>>, <<>>, <<>>), 0)
            ELSE IF k = "i64" /\ e.s[8] < 128
            THEN D("Ok", V(k, i32_from_le_bytes(e.s), SubSeq(e.s, 5, 8),
                           <<>>, <<>>, <<>>), 0)
            ELSE D("Custom", Nothing, 0)
      [] OTHER -> D("Custom", Nothing, 0)

\* the scalar visit_* call deserialize_any makes for tape entry e, on the
\* visitor of type ty; a visitor's default for a call it does not take is
\* the invalid-type error (Custom)
visit_scalar(ty, e) ==
    CASE ty.k = "ignored_any" -> D("Ok", V("ignored_any", 0, <<>>, <<>>, <<>>, <<>>), 0)
      [] ty.k = "handwritten" -> D("Ok", V("handwritten", 0, <<>>, <<>>, <<>>, <<>>), 0)
      [] ty.k = "bool" ->
            IF e.t = "Boolean" THEN D("Ok", Bool(e.n), 0)
            ELSE D("Custom", Nothing, 0)
      [] ty.k \in {"i8", "i16", "i32", "i64"} -> visit_int(ty.k, e)
      [] ty.k = "f64" ->
            IF e.t = "Double" THEN D("Ok", F64(e.s), 0)
            ELSE IF e.t \in {"I32", "I64", "UtcDateTime", "Timestamp"}
            THEN D("Ok", V("f64", e.n, e.s, <<>>, <<>>, <<>>), 0)
            ELSE D("Custom", Nothing, 0)
      [] ty.k = "f32" ->
            IF e.t = "Double" THEN D("Ok", F32(f64_as_f32(e.s)), 0)
            ELSE IF e.t \in {"I32", "I64", "UtcDateTime", "Timestamp"}
            THEN D("Ok", V("f32", e.n, e.s, <<>>, <<>>, <<>>), 0)
            ELSE D("Custom", Nothing, 0)
      [] ty.k = "str" ->
            IF e.t = "String" \/ (e.t = "Binary" /\ from_utf8_ok(e.s))
            THEN D("Ok", Str(e.s), 0)
            ELSE D("Custom", Nothing, 0)
      [] ty.k = "bytes" ->
            IF e.t \in {"String", "Binary"} THEN D("Ok", Bytes(e.s), 0)
            ELSE D("Custom", Nothing, 0)
      [] ty.k = "option" ->
            IF e.t = "Null" THEN D("Ok", NoneV, 0)
            ELSE D("Custom", Nothing, 0)
      [] OTHER -> D("Custom", Nothing, 0)

\* the index of field name s among keys, 0 when it is none of them
field_index(keys, s) ==
    IF \E i \in 1..Len(keys) : keys[i] = s
    THEN CHOOSE i \in 1..Len(keys) : keys[i] = s
    ELSE 0

(***************************************************************************)
(* de.rs: the tape cursor.  pos is the index of the next tape entry: the   *)
(* window self.tape is tape[pos..].                                        *)
(***************************************************************************)
\* self.tape.first(), by its kind ("None" when the window is empty)
first(tape, pos) == IF pos <= Len(tape) THEN tape[pos].t ELSE "None"

RECURSIVE deserialize(_, _, _)
RECURSIVE deserialize_any(_, _, _)
RECURSIVE deserialize_seq(_, _, _)
RECURSIVE deserialize_enum(_, _, _)
RECURSIVE visit_map(_, _, _)
RECURSIVE visit_seq(_, _, _)
RECURSIVE map_entries(_, _, _, _, _)
RECURSIVE ignored_entries(_, _)
RECURSIVE seq_elements(_, _, _, _)
RECURSIVE tuple_elements(_, _, _, _, _)

\* SeqAccess::next_element_seed for an element of type ty: st is "Ok" with
\* some = FALSE for Ok(None)
next_element_seed(ty, tape, pos) ==
    LET Some(r) == [st |-> r.st, some |-> TRUE, val |-> r.val, pos |-> r.pos]
    IN  IF first(tape, pos) = "DocumentEnd"
        THEN [st |-> "Ok", some |-> FALSE, val |-> Nothing, pos |-> pos]
        ELSE IF first(tape, pos) # "Key"
        THEN [st |-> "MalformedMapMissingKey", some |-> FALSE, val |-> Nothing,
              pos |-> IF pos <= Len(tape) THEN pos + 1 ELSE pos]
        ELSE Some(deserialize(ty, tape, pos + 1))

\* the visit_seq of a growable sequence: elements until Ok(None)
seq_elements(ty, tape, pos, acc) ==
    LET Go(e) ==
            IF e.st # "Ok" THEN D(e.st, Nothing, e.pos)
            ELSE IF ~e.some THEN D("Ok", acc, e.pos)
            ELSE seq_elements(ty, tape, e.pos, Append(acc, e.val))
    IN  Go(next_element_seed(
               IF ty.xs = <<>> THEN IgnoredAny
               ELSE ty.xs[IF Len(acc) < Len(ty.xs) THEN Len(acc) + 1 ELSE Len(ty.xs)],
               tape, pos))

\* the visit_seq of a tuple, tuple struct or struct: exactly its elements, in
\* order; Ok(None) in their place is the invalid-length error
tuple_elements(ty, tape, pos, i, acc) ==
    LET Go(e) ==
            IF e.st # "Ok" THEN D(e.st, Nothing, e.pos)
            ELSE IF ~e.some THEN D("Custom", Nothing, e.pos)
            ELSE tuple_elements(ty, tape, e.pos, i + 1, Append(acc, e.val))
    IN  IF i > Len(ty.xs) THEN D("Ok", acc, pos)
        ELSE Go(next_element_seed(ty.xs[i], tape, pos))

\* the visit_map of IgnoredAny: entries until next_key_seed gives Ok(None)
ignored_entries(tape, pos) ==
    LET Go(r) == IF r.st # "Ok" THEN r ELSE ignored_entries(tape, r.pos)
    IN  IF first(tape, pos) = "DocumentEnd"
        THEN D("Ok", V("ignored_any", 0, <<>>, <<>>, <<>>, <<>>), pos + 1)
        ELSE IF first(tape, pos) # "Key"
        THEN D("MalformedMapMissingKey", Nothing,
               IF pos <= Len(tape) THEN pos + 1 ELSE pos)
        ELSE Go(deserialize(IgnoredAny, tape, pos + 1))

\* the visit_map of a struct: MapAccess::next_key_seed, then next_value_seed
\* for the field of that name, until Ok(None); got maps the fields seen so
\* far to their values
map_entries(ty, tape, pos, seen, got) ==
    LET missing == (1..Len(ty.xs)) \ seen
        Known(i, r) ==
            IF r.st # "Ok" THEN r
            ELSE map_entries(ty, tape, r.pos, seen \cup {i},
                             [got EXCEPT ![i] = r.val])
        Unknown(r) ==
            IF r.st # "Ok" THEN r ELSE map_entries(ty, tape, r.pos, seen, got)
        Field(i) ==
            IF i = 0 THEN Unknown(deserialize(IgnoredAny, tape, pos + 1))
            ELSE IF i \in seen THEN D("Custom", Nothing, pos + 1)
            ELSE Known(i, deserialize(ty.xs[i], tape, pos + 1))
    IN  IF first(tape, pos) = "DocumentEnd"
        THEN IF \A i \in missing : ty.xs[i].k = "option"
             THEN D("Ok", StructV(ty.keys, got), pos + 1)
             ELSE D("Custom", Nothing, pos + 1)
        ELSE IF first(tape, pos) # "Key"
        THEN D("MalformedMapMissingKey", Nothing,
               IF pos <= Len(tape) THEN pos + 1 ELSE pos)
        ELSE Field(field_index(ty.keys, tape[pos].s))

\* visitor.visit_map(self), on the visitor of type ty
visit_map(ty, tape, pos) ==
    CASE ty.k = "struct" ->
            map_entries(ty, tape, pos, {}, [i \in 1..Len(ty.xs) |-> NoneV])
      [] ty.k = "ignored_any" -> ignored_entries(tape, pos)
      [] ty.k = "handwritten" ->
            D("Ok", V("handwritten", 0, <<>>, <<>>, <<>>, <<>>), pos)
      [] OTHER -> D("Custom", Nothing, pos)

\* visitor.visit_seq(self), on the visitor of type ty
visit_seq(ty, tape, pos) ==
    LET Wrap(r, k) ==
            IF r.st # "Ok" THEN r
            ELSE D("Ok", V(k, 0, <<>>, r.val, ty.keys, <<>>), r.pos)
        Newtype(r) ==
            IF r.st # "Ok" THEN r
            ELSE D("Ok", NewtypeStruct(r.val[1]), r.pos)
        Ignore(r) ==
            IF r.st # "Ok" THEN r
            ELSE D("Ok", V("ignored_any", 0, <<>>, <<>>, <<>>, <<>>), r.pos)
    IN  CASE ty.k = "seq" -> Wrap(seq_elements(ty, tape, pos, <<>>), "seq")
          [] ty.k \in {"tuple", "tuple_struct", "struct"} ->
                Wrap(tuple_elements(ty, tape, pos, 1, <<>>), ty.k)
          [] ty.k = "newtype_struct" ->
                Newtype(tuple_elements(ty, tape, pos, 1, <<>>))
          [] ty.k = "ignored_any" ->
                Ignore(seq_elements(ty, tape, pos, <<>>))
          [] ty.k = "handwritten" ->
                D("Ok", V("handwritten", 0, <<>>, <<>>, <<>>, <<>>), pos)
          [] OTHER -> D("Custom", Nothing, pos)

\* a deserialize_any that takes a Key for the end of the document
deserialize_any_key_as_end(ty, tape, pos) ==
    LET Scalar(r) == D(r.st, r.val, pos + 1)
    IN  CASE first(tape, pos) = "None" -> D("EndOfFile", Nothing, pos)
          [] first(tape, pos) = "DocumentStart" -> visit_map(ty, tape, pos + 1)
          [] first(tape, pos) \in {"DocumentEnd", "Key"} ->
                D("UnexpectedMapEnd", Nothing, pos + 1)
          [] first(tape, pos) = "ArrayStart" -> deserialize_seq(ty, tape, pos + 1)
          [] OTHER -> Scalar(visit_scalar(ty, tape[pos]))

\* Deserializer::deserialize_any
deserialize_any(ty, tape, pos) ==
    LET Scalar(r) == D(r.st, r.val, pos + 1)
    IN  CASE first(tape, pos) = "None" -> D("EndOfFile", Nothing, pos)
          [] first(tape, pos) = "DocumentStart" -> visit_map(ty, tape, pos + 1)
          [] first(tape, pos) = "DocumentEnd" ->
                D("UnexpectedMapEnd", Nothing, pos + 1)
          [] first(tape, pos) = "Key" -> D("UnexpectedKey", Nothing, pos + 1)
          [] first(tape, pos) = "ArrayStart" -> deserialize_seq(ty, tape, pos + 1)
          [] OTHER -> Scalar(visit_scalar(ty, tape[pos]))

\* Deserializer::deserialize_seq
deserialize_seq(ty, tape, pos) ==
    LET End(r) ==
            IF r.st # "Ok" THEN r
            ELSE IF first(tape, r.pos) # "DocumentEnd"
            THEN D("UnexpectedMapEnd", Nothing,
                   IF r.pos <= Len(tape) THEN r.pos + 1 ELSE r.pos)
            ELSE D("Ok", r.val, r.pos + 1)
    IN  End(visit_seq(ty, tape,
                      IF first(tape, pos) = "ArrayStart" THEN pos + 1 ELSE pos))

\* T::deserialize(&mut EnumDeserializer), every method of which forwards to
\* its deserialize_any: a leading Key goes to the visitor as a string
enum_deserialize(ty, tape, pos) ==
    LET AsStr(r) == D(r.st, r.val, pos + 1)
    IN  IF first(tape, pos) = "Key"
        THEN AsStr(visit_scalar(ty, Tape("String", 0, tape[pos].s)))
        ELSE deserialize_any(ty, tape, pos)

\* EnumAccess::variant_seed: the variant's name ([st, s, pos])
variant_seed(tape, pos) ==
    CASE first(tape, pos) = "Key" ->
            [st |-> "Ok", s |-> tape[pos].s, pos |-> pos + 1]
      [] first(tape, pos) \in {"String", "Binary"} ->
            [st |-> "Ok", s |-> tape[pos].s, pos |-> pos + 1]
      [] first(tape, pos) = "None" ->
            [st |-> "EndOfFile", s |-> <<>>, pos |-> pos]
      [] first(tape, pos) = "DocumentEnd" ->
            [st |-> "UnexpectedMapEnd", s |-> <<>>, pos |-> pos + 1]
      [] OTHER -> [st |-> "Custom", s |-> <<>>, pos |-> pos + 1]

\* the VariantAccess call the enum's visitor makes for its variant
variant_payload(ty, tape, pos) ==
    LET Rewrap(r, k) ==
            IF r.st # "Ok" THEN r
            ELSE D("Ok", V(k, 0, <<>>, r.val.xs, ty.keys, ty.name), r.pos)
        Newtype(r) ==
            IF r.st # "Ok" THEN r
            ELSE D("Ok", NewtypeVariant(ty.name, r.val), r.pos)
    IN  CASE ty.k = "unit_variant" -> D("panic", Nothing, pos)
          [] ty.k = "newtype_variant" ->
                Newtype(enum_deserialize(ty.xs[1], tape, pos))
          [] ty.k = "tuple_variant" ->
                Rewrap(enum_deserialize(Ty("tuple", ty.xs, <<>>, <<>>), tape, pos),
                       "tuple_variant")
          [] OTHER ->
                Rewrap(enum_deserialize(Ty("struct", ty.xs, ty.keys, <<>>), tape, pos),
                       "struct_variant")

\* Deserializer::deserialize_enum
deserialize_enum(ty, tape, pos) ==
    LET End(r) ==
            IF r.st # "Ok" THEN r
            ELSE IF first(tape, r.pos) # "DocumentEnd"
            THEN D("UnexpectedMapEnd", Nothing,
                   IF r.pos <= Len(tape) THEN r.pos + 1 ELSE r.pos)
            ELSE D("Ok", r.val, r.pos + 1)
        Variant(name) ==
            IF name.st # "Ok" THEN D(name.st, Nothing, name.pos)
            ELSE IF name.s # ty.name THEN D("Custom", Nothing, name.pos)
            ELSE End(variant_payload(ty, tape, name.pos))
    IN  CASE first(tape, pos) = "String" ->
                IF tape[pos].s = ty.name /\ ty.k = "unit_variant"
                THEN D("Ok", UnitVariant(ty.name), pos + 1)
                ELSE D("Custom", Nothing, pos + 1)
          [] first(tape, pos) \in {"DocumentStart", "ArrayStart"} ->
                Variant(variant_seed(tape, pos + 1))
          [] OTHER -> D("UnexpectedEnum", Nothing,
                        IF pos <= Len(tape) THEN pos + 1 ELSE pos)

\* T::deserialize(&mut BsonDeserializer): the request a type makes
deserialize(ty, tape, pos) ==
    CASE ty.k = "seq" -> deserialize_seq(ty, tape, pos)
      [] ty.k \in EnumKinds -> deserialize_enum(ty, tape, pos)
      [] OTHER -> deserialize_any(ty, tape, pos)

\* a next_key_seed that leaves the DocumentEnd on the tape
next_key_seed_peeking(tape, pos) ==
    CASE first(tape, pos) = "DocumentEnd" -> D("Ok", Nothing, pos)
      [] first(tape, pos) = "Key" -> D("Ok", Str(tape[pos].s), pos + 1)
      [] OTHER -> D("MalformedMapMissingKey", Nothing,
                    IF pos <= Len(tape) THEN pos + 1 ELSE pos)

\* MapAccess::next_key_seed: Ok(None) is "Ok" with no value, Ok(Some(key))
\* is "Ok" with the key as the string the seed is handed
next_key_seed(tape, pos) ==
    CASE first(tape, pos) = "DocumentEnd" -> D("Ok", Nothing, pos + 1)
      [] first(tape, pos) = "Key" -> D("Ok", Str(tape[pos].s), pos + 1)
      [] OTHER -> D("MalformedMapMissingKey", Nothing,
                    IF pos <= Len(tape) THEN pos + 1 ELSE pos)

\* from_bytes: the arena reset, the tape, then D::deserialize over it
from_bytes(input, ty) ==
    LET Walk(built) ==
            IF built.st # "Ok"
            THEN [st |-> "panic", val |-> Nothing, tape |-> built.tape,
                  skipped |-> built.skipped, pos |-> 1]
            ELSE LET Done(r) == [st |-> r.st,
                                 val |-> IF r.st = "Ok" THEN r.val ELSE Nothing,
                                 tape |-> built.tape, skipped |-> built.skipped,
                                 pos |-> r.pos]
                 IN  Done(deserialize(ty, built.tape, 1))
    IN  Walk(to_tape(input))

(***************************************************************************)
(* The state machine: one action per entry point.                          *)
(***************************************************************************)
NoDec == [st |-> "none", val |-> Nothing, tape |-> <<>>, skipped |-> 0, pos |-> 1]

\* whether every item is a byte (no run of unmaterialised payload)
concrete(items) == \A i \in 1..Len(items) : items[i] >= 0

Init ==
    /\ val \in Values
    /\ prior \in Priors
    /\ sink = prior
    /\ enc = [st |-> "none", guard |-> TRUE]
    /\ size = [st |-> "none", n |-> U(0, 0), guard |-> TRUE]
    /\ data = <<>>
    /\ want = <<>>
    /\ dec = NoDec

CallSerialisedSizeOf ==
    /\ size.st = "none"
    /\ size' = serialised_size_of(val)
    /\ UNCHANGED <<val, prior, sink, enc, data, want, dec>>

CallToString ==
    /\ enc.st = "none"
    /\ LET r == to_string(val, sink)
       IN  /\ sink' = r.output
           /\ enc' = [st |-> r.st, guard |-> r.guard]
    /\ UNCHANGED <<val, prior, size, data, want, dec>>

\* the caller hands the document just encoded to from_bytes, asking for the
\* type of the value it encoded
PassEncoded ==
    /\ enc.st = "Ok"
    /\ data = <<>>
    /\ prior = <<>>
    /\ concrete(sink)
    /\ data' = sink
    /\ want' = TypeOf(val)
    /\ UNCHANGED <<val, prior, sink, enc, size, dec>>

CallFromBytes ==
    /\ dec.st = "none"
    /\ data # <<>>
    /\ dec' = from_bytes(data, want)
    /\ UNCHANGED <<val, prior, sink, enc, size, data, want>>

Next == CallSerialisedSizeOf \/ CallToString \/ PassEncoded \/ CallFromBytes

Spec == Init /\ [][Next]_vars

(***************************************************************************)
(* from_bytes on inputs of any make: a declared length, a body put         *)
(* together from whole elements and stray bytes, and bytes after the       *)
(* declared length.                                                        *)
(***************************************************************************)
\* the pieces of a body: the terminator; null "a"; true "b"; int32 1999 "a";
\* the start of a document "d"; an element of the unsupported kind 0x06
\* named "x"; a stray unsupported tag 0x7F
Pieces ==
    {<<0>>, <<10, 97, 0>>, <<8, 98, 0, 1>>, <<16, 97, 0, 207, 7, 0, 0>>,
     <<3, 100, 0, 5, 0, 0, 0>>, <<6, 120, 0>>, <<127>>}

RECURSIVE Concat(_)
Concat(ps) == IF ps = <<>> THEN <<>> ELSE Head(ps) \o Concat(Tail(ps))

Bodies == {Concat(ps) : ps \in UNION {[1..n -> Pieces] : n \in 0..MaxBody}}

\* what may follow the declared length
Trailers == {<<>>, <<0>>, <<8, 98, 0, 1, 0>>, <<6, 255>>}

Inputs ==
    {<<4 + Len(b), 0, 0, 0>> \o b \o t : b \in Bodies, t \in Trailers}

\* the types asked for: struct { a: Option<i32>, b: bool },
\* struct { a: i32 }, and IgnoredAny
Wanted ==
    {Ty("struct", <<Ty("option", <<>>, <<>>, <<>>), Ty("bool", <<>>, <<>>, <<>>)>>,
        <<<<97>>, <<98>>>>, <<>>),
     Ty("struct", <<Ty("i32", <<>>, <<>>, <<>>)>>, <<<<97>>>>, <<>>),
     IgnoredAny}

InitTape ==
    /\ val = Nothing
    /\ prior = <<>>
    /\ sink = <<>>
    /\ enc = [st |-> "none", guard |-> TRUE]
    /\ size = [st |-> "none", n |-> U(0, 0), guard |-> TRUE]
    /\ data \in Inputs
    /\ want \in Wanted
    /\ dec = NoDec

NextTape == CallFromBytes

SpecTape == InitTape /\ [][NextTape]_vars

(***************************************************************************)
(* to_tape, one turn of its loop at a time.  Here dec is the builder at    *)
(* work: st is "scanning" while the loop runs, "Ok" once it has ended and  *)
(* "panic" once an index, expect or unwrap has aborted it; position is the *)
(* cursor, from the cursor at the start of the turn taken last, op the     *)
(* step taken last.                                                        *)
(***************************************************************************)
\* whole elements, one of each supported kind: double, string "h", document,
\* array, binary of one byte, boolean, datetime, null, int32, timestamp,
\* int64; the terminator; an element of the unsupported kind 0x06; elements
\* cut short or declaring more than there is
ScanPieces ==
    {<<1, 97, 0, 0, 0, 0, 0, 0, 0, 240, 63>>,
     <<2, 97, 0, 2, 0, 0, 0, 104, 0>>,
     <<3, 100, 0, 5, 0, 0, 0>>,
     <<4, 101, 101, 0, 5, 0, 0, 0>>,
     <<5, 97, 0, 1, 0, 0, 0, 128, 255>>,
     <<8, 98, 0, 1>>,
     <<9, 97, 0, 1, 2, 3, 4, 5, 6, 7, 8>>,
     <<10, 97, 0>>,
     <<16, 0, 207, 7, 0, 0>>,
     <<17, 97, 0, 1, 2, 3, 4, 5, 6, 7, 8>>,
     <<18, 97, 0, 1, 2, 3, 4, 5, 6, 7, 8>>,
     <<0>>,
     <<6, 120, 0>>,
     <<16, 97, 0, 207>>,
     <<2, 97, 0, 9, 0, 0, 0, 104, 0>>,
     <<10, 97>>}

\* the pieces that come before the last one of a body: string, document,
\* binary, boolean, terminator, unsupported
LeadPieces == {p \in ScanPieces : p[1] \in {0, 3, 5, 6, 8} \/ (p[1] = 2 /\ p[4] = 2)}

\* the empty body, and up to MaxScan pieces, the last one any of ScanPieces
ScanBodies ==
    {<<>>} \cup
    {Concat(qs) \o p :
        qs \in UNION {[1..n -> LeadPieces] : n \in 0..(MaxScan - 1)},
        p \in ScanPieces}

\* documents whose declared length is their body's; and buffers too short
\* for a length, declaring less than 4 bytes, declaring more than they
\* hold, or holding more than they declare
ScanInputs ==
    {<<4 + Len(b), 0, 0, 0>> \o b : b \in ScanBodies}
    \cup {<<>>, <<5, 0, 0>>, <<3, 0, 0, 0>>, <<9, 0, 0, 0, 0>>,
          <<5, 0, 0, 0, 0, 6, 255>>}

\* `length`, as far as it matters: a usize beyond the input reads as one more
\* than the input holds
declared_length(input) == clamp(u32_from_le_bytes(SubSeq(input, 1, 4)), input)

\* &input[4..length]
scanned(input) == slice(input, 4, declared_length(input))

Scanning(st, tape, skipped, position, from, op) ==
    [st |-> st, val |-> Nothing, tape |-> tape, skipped |-> skipped, pos |-> 1,
     position |-> position, from |-> from, op |-> op]

InitScan ==
    /\ val = Nothing
    /\ prior = <<>>
    /\ sink = <<>>
    /\ enc = [st |-> "none", guard |-> TRUE]
    /\ size = [st |-> "none", n |-> U(0, 0), guard |-> TRUE]
    /\ data \in ScanInputs
    /\ want = IgnoredAny
    /\ dec = Scanning("none", <<>>, 0, 0, 0, "none")

\* the lines of to_tape before its loop
ScanStart ==
    /\ dec.st = "none"
    /\ dec' = IF Len(data) < 4 \/ declared_length(data) < 4
                 \/ declared_length(data) > Len(data)
              THEN Scanning("panic", <<>>, 0, 0, 0, "start")
              ELSE Scanning("scanning", <<Tape("DocumentStart", 0, <<>>)>>, 0, 0, 0,
                            "start")
    /\ UNCHANGED <<val, prior, sink, enc, size, data, want>>

\* one turn of the loop
ScanTurn ==
    /\ dec.st = "scanning"
    /\ dec.position < Len(scanned(data))
    /\ \E body \in {scanned(data)} :
         \E t \in {loop_turn(body, dec.position, dec.tape, dec.skipped)} :
           dec' = Scanning(t.st, t.tape, t.skipped, t.position, dec.position, "turn")
    /\ UNCHANGED <<val, prior, sink, enc, size, data, want>>

\* the loop condition found false
ScanEnd ==
    /\ dec.st = "scanning"
    /\ dec.position >= Len(scanned(data))
    /\ dec' = [dec EXCEPT !.st = "Ok", !.op = "end"]
    /\ UNCHANGED <<val, prior, sink, enc, size, data, want>>

NextScan == ScanStart \/ ScanTurn \/ ScanEnd

SpecScan == InitScan /\ [][NextScan]_vars

\* the builder is run to its end: a turn of the loop is taken whenever one
\* can be
SpecScanFair == SpecScan /\ WF_vars(NextScan)

\* the builder taken turn by turn ends as to_tape does
ScanIsToTape ==
    dec.st \in {"Ok", "panic"} =>
        Built(dec.st, dec.tape, dec.skipped) = to_tape(data)

(***************************************************************************)
(* The tape cursor, one call at a time.  Here dec is the BsonDeserializer  *)
(* over the tape to_tape built for data: pos is its window, st and val the *)
(* result of the call made last, op that call, from the window it was made *)
(* at, and inside whether a visit_map of the Handwritten visitor has been  *)
(* entered; want is the type the call made last was for.  The first call   *)
(* is the one D::deserialize makes; the calls after it are those the       *)
(* Handwritten visitor makes on its MapAccess: next_key_seed, and          *)
(* next_value_seed, which is the request of the seed's type.  A visitor    *)
(* hands an error back to its caller, so no call follows an error.         *)
(***************************************************************************)
\* the terminator; int32 1999 "a"; int32 1 "0"; the start of an array "d";
\* the start of a document "d"
CursorPieces ==
    {<<0>>, <<16, 97, 0, 207, 7, 0, 0>>, <<16, 48, 0, 1, 0, 0, 0>>,
     <<4, 100, 0, 5, 0, 0, 0>>, <<3, 100, 0, 5, 0, 0, 0>>}

CursorInputs ==
    {<<4 + Len(b), 0, 0, 0>> \o b :
        b \in {Concat(ps) : ps \in UNION {[1..n -> CursorPieces] : n \in 0..MaxEntries}}}

\* the types asked for through deserialize_any, deserialize_seq and
\* deserialize_enum: i32, IgnoredAny and the Handwritten visitor; Vec<i32>;
\* enum { a(i32) }
AnyTypes == {Ty("i32", <<>>, <<>>, <<>>), IgnoredAny, Handwritten}

SeqTypes == {Ty("seq", <<Ty("i32", <<>>, <<>>, <<>>)>>, <<>>, <<>>)}

EnumTypes == {Ty("newtype_variant", <<Ty("i32", <<>>, <<>>, <<>>)>>, <<>>, <<97>>)}

Cursor(st, v, tape, pos, op, from, inside) ==
    [st |-> st, val |-> v, tape |-> tape, skipped |-> 0, pos |-> pos,
     op |-> op, from |-> from, inside |-> inside]

\* the cursor after a call that returned r
Returned(op, r, entered) ==
    Cursor(r.st, r.val, dec.tape, r.pos, op, dec.pos, dec.inside \/ entered)

\* whether a request can be made: the one of D::deserialize, or one of the
\* Handwritten visitor inside its visit_map
Requestable == dec.st = "Ok" /\ (dec.op = "to_tape" \/ dec.inside)

InitCursor ==
    /\ val = Nothing
    /\ prior = <<>>
    /\ sink = <<>>
    /\ enc = [st |-> "none", guard |-> TRUE]
    /\ size = [st |-> "none", n |-> U(0, 0), guard |-> TRUE]
    /\ data \in CursorInputs
    /\ want = IgnoredAny
    /\ to_tape(data).st = "Ok"
    /\ dec = Cursor("Ok", Nothing, to_tape(data).tape, 1, "to_tape", 1, FALSE)

DeserializeAny ==
    /\ Requestable
    /\ \E ty \in AnyTypes :
           /\ want' = ty
           /\ dec' = Returned("deserialize_any",
                               deserialize_any(ty, dec.tape, dec.pos),
                               ty = Handwritten
                               /\ first(dec.tape, dec.pos) = "DocumentStart")
    /\ UNCHANGED <<val, prior, sink, enc, size, data>>

DeserializeSeq ==
    /\ Requestable
    /\ \E ty \in SeqTypes :
           /\ want' = ty
           /\ dec' = Returned("deserialize_seq",
                               deserialize_seq(ty, dec.tape, dec.pos), FALSE)
    /\ UNCHANGED <<val, prior, sink, enc, size, data>>

DeserializeEnum ==
    /\ Requestable
    /\ \E ty \in EnumTypes :
           /\ want' = ty
           /\ dec' = Returned("deserialize_enum",
                               deserialize_enum(ty, dec.tape, dec.pos), FALSE)
    /\ UNCHANGED <<val, prior, sink, enc, size, data>>

NextKeySeed ==
    /\ dec.st = "Ok"
    /\ dec.inside
    /\ dec' = Returned("next_key_seed", next_key_seed(dec.tape, dec.pos), FALSE)
    /\ UNCHANGED <<val, prior, sink, enc, size, data, want>>

NextCursor == DeserializeAny \/ DeserializeSeq \/ DeserializeEnum \/ NextKeySeed

SpecCursor == InitCursor /\ [][NextCursor]_vars

(***************************************************************************)
(* The thread-local arena over a sequence of from_bytes calls.  An arena   *)
(* is what is allocated in it: the tape entries pushed since it was last   *)
(* cleared.  Here dec is the outcome of the call made last, the thread     *)
(* that made it, what that call found in its arena, the arena of every     *)
(* thread and the number of calls so far;                                  *)
(* data and want are the input and the type of that call.  A call that     *)
(* panics unwinds out of with_borrow_mut, which gives the borrow back, so  *)
(* the thread can call again.                                              *)
(***************************************************************************)
Threads == {1, 2}

\* bumpalo::Bump::new
Bump == <<>>

\* a reset that keeps what was allocated
reset_keeping(allocator) == allocator

\* Bump::reset
reset(allocator) == <<>>

\* Vec::new_in: a vector of no elements; nothing of the arena is read
new_in(allocator) == <<>>

\* the closure from_bytes runs on its thread's arena: the outcome, the tape
\* and the arena it leaves
with_borrow_mut(allocator, input, ty) ==
    LET Done(r, tape, cleared) ==
            [st |-> r.st, val |-> IF r.st = "Ok" THEN r.val ELSE Nothing,
             tape |-> tape, allocator |-> cleared \o tape]
        Walk(built, tape, cleared) ==
            IF built.st # "Ok"
            THEN Done(D("panic", Nothing, 1), tape, cleared)
            ELSE Done(deserialize(ty, tape, 1), tape, cleared)
        Build(built, cleared) ==
            Walk(built, new_in(cleared) \o built.tape, cleared)
    IN  Build(to_tape(input), reset(allocator))

\* the empty document; { a: 1999 }; { a: 1 }; { a: null }; a header alone;
\* { a: true }; { a: true } and then a key that never ends, on which
\* to_tape panics with three entries pushed; an element of a tag to_tape
\* passes over
CallInputs ==
    {<<5, 0, 0, 0, 0>>,
     <<12, 0, 0, 0, 16, 97, 0, 207, 7, 0, 0, 0>>,
     <<12, 0, 0, 0, 16, 97, 0, 1, 0, 0, 0, 0>>,
     <<8, 0, 0, 0, 10, 97, 0, 0>>,
     <<4, 0, 0, 0>>,
     <<9, 0, 0, 0, 8, 97, 0, 1, 0>>,
     <<16, 0, 0, 0, 8, 97, 0, 1, 16, 97, 97, 97, 97, 97, 97, 97>>,
     <<8, 0, 0, 0, 6, 120, 0, 0>>}

\* struct { a: i32 } and IgnoredAny
CallTypes ==
    {Ty("struct", <<Ty("i32", <<>>, <<>>, <<>>)>>, <<<<97>>>>, <<>>), IgnoredAny}

InitCalls ==
    /\ val = Nothing
    /\ prior = <<>>
    /\ sink = <<>>
    /\ enc = [st |-> "none", guard |-> TRUE]
    /\ size = [st |-> "none", n |-> U(0, 0), guard |-> TRUE]
    /\ data = <<>>
    /\ want = IgnoredAny
    /\ dec = [st |-> "none", val |-> Nothing, tape |-> <<>>, skipped |-> 0,
              pos |-> 1, thread |-> 1, found |-> Bump,
              ALLOCATOR |-> [t \in Threads |-> Bump], calls |-> 0]

CallFromBytesOn ==
    /\ dec.calls < MaxCalls
    /\ \E t \in Threads, input \in CallInputs, ty \in CallTypes :
           /\ data' = input
           /\ want' = ty
           /\ \E r \in {with_borrow_mut(dec.ALLOCATOR[t], input, ty)} :
                  dec' = [st |-> r.st, val |-> r.val, tape |-> r.tape,
                          skipped |-> 0, pos |-> 1, thread |-> t,
                          found |-> dec.ALLOCATOR[t],
                          ALLOCATOR |-> [dec.ALLOCATOR EXCEPT ![t] = r.allocator],
                          calls |-> dec.calls + 1]
    /\ UNCHANGED <<val, prior, sink, enc, size>>

NextCalls == CallFromBytesOn

SpecCalls == InitCalls /\ [][NextCalls]_vars

(***************************************************************************)
(* The calls of the sink capability set, one at a time.  Here sink is the  *)
(* buffers in use, the caller's first and the buffer split off last at the *)
(* end, which is the one written to; enc is the call made last, with its   *)
(* argument and the buffers as they were before it.                        *)
(***************************************************************************)
\* the slices handed to put_slice: empty, two bytes, a run of 2^30 bytes
Slices == {<<>>, <<104, 105>>, <<-1>>}

\* BytesMut as the caller hands it over, CountingBytes::default()
FreshSinks == {BytesMut(<<>>), BytesMut(<<170>>), CountingBytes(U(0, 0))}

Called(op, arg) ==
    [st |-> "none", guard |-> TRUE, op |-> op, arg |-> arg, before |-> sink,
     ops |-> enc.ops + 1]

innermost(bufs) == bufs[Len(bufs)]

InitSink ==
    /\ val = Nothing
    /\ prior = <<>>
    /\ \E b \in FreshSinks : sink = <<b>>
    /\ enc = [st |-> "none", guard |-> TRUE, op |-> "new", arg |-> <<>>,
              before |-> <<>>, ops |-> 0]
    /\ size = [st |-> "none", n |-> U(0, 0), guard |-> TRUE]
    /\ data = <<>>
    /\ want = <<>>
    /\ dec = NoDec

PutU8 ==
    /\ enc.ops < MaxOps
    /\ \E v \in {255} :
           /\ sink' = [sink EXCEPT ![Len(sink)] = put_u8(@, v)]
           /\ enc' = Called("put_u8", <<v>>)
    /\ UNCHANGED <<val, prior, size, data, want, dec>>

PutI32Le ==
    /\ enc.ops < MaxOps
    /\ \E v \in {1999} :
           /\ sink' = [sink EXCEPT ![Len(sink)] = put_i32_le(@, v)]
           /\ enc' = Called("put_i32_le", <<v>>)
    /\ UNCHANGED <<val, prior, size, data, want, dec>>

PutI64Le ==
    /\ enc.ops < MaxOps
    /\ sink' = [sink EXCEPT ![Len(sink)] = put_i64_le(@, 7)]
    /\ enc' = Called("put_i64_le", <<7>>)
    /\ UNCHANGED <<val, prior, size, data, want, dec>>

PutF64Le ==
    /\ enc.ops < MaxOps
    /\ \E v \in {<<0, 0, 0, 0, 0, 0, 240, 63>>} :
           /\ sink' = [sink EXCEPT ![Len(sink)] = put_f64_le(@, v)]
           /\ enc' = Called("put_f64_le", v)
    /\ UNCHANGED <<val, prior, size, data, want, dec>>

PutSlice ==
    /\ enc.ops < MaxOps
    /\ \E s \in Slices :
           /\ sink' = [sink EXCEPT ![Len(sink)] = put_slice(@, s)]
           /\ enc' = Called("put_slice", s)
    /\ UNCHANGED <<val, prior, size, data, want, dec>>

\* split_off at the current length, as start_document calls it
SplitOff ==
    /\ enc.ops < MaxOps
    /\ LET sp == split_off(innermost(sink), buf_len(innermost(sink)))
       IN  sink' = Append([sink EXCEPT ![Len(sink)] = sp.self], sp.out)
    /\ enc' = Called("split_off", <<>>)
    /\ UNCHANGED <<val, prior, size, data, want, dec>>

\* unsplit of the buffer split off last onto the buffer it came from
Unsplit ==
    /\ enc.ops < MaxOps
    /\ Len(sink) >= 2
    /\ sink' = SubSeq(sink, 1, Len(sink) - 2) \o
                   <<unsplit(sink[Len(sink) - 1], innermost(sink))>>
    /\ enc' = Called("unsplit", <<>>)
    /\ UNCHANGED <<val, prior, size, data, want, dec>>

\* *byte_mut(at) = v on a byte that has been written
ByteMut ==
    /\ enc.ops < MaxOps
    /\ \E at \in {0, 3}, v \in {9} :
           /\ innermost(sink).impl = "BytesMut" => at < Len(innermost(sink).data)
           /\ sink' = [sink EXCEPT ![Len(sink)] = byte_set(@, at, v)]
           /\ enc' = Called("byte_mut", <<at, v>>)
    /\ UNCHANGED <<val, prior, size, data, want, dec>>

NextSink ==
    \/ PutU8 \/ PutI32Le \/ PutI64Le \/ PutF64Le \/ PutSlice
    \/ SplitOff \/ Unsplit \/ ByteMut

SpecSink == InitSink /\ [][NextSink]_vars

(***************************************************************************)
(* C1  Round trip.                                                         *)
(***************************************************************************)
\* C1: for every value of a type supporting both directions, from_bytes of
\* the bytes to_string wrote succeeds and returns a value equal to the one
\* encoded.
C1_RoundTrip == dec.st # "none" => dec.st = "Ok" /\ dec.val = val

(***************************************************************************)
(* C2  Size consistency.                                                   *)
(***************************************************************************)
\* C2: serialised_size_of succeeds exactly when to_string succeeds (each
\* otherwise ends the same way), and then its result is the number of bytes
\* to_string appended to the output.
C2_SizeConsistency ==
    (size.st # "none" /\ enc.st # "none") =>
        /\ size.st = enc.st
        /\ enc.st = "Ok" => usize_add(slice_len(prior), size.n) = slice_len(sink)

\* both passes ran over a struct holding a tuple variant (three nested
\* split_off/unsplit pairs), the output not empty beforehand
C2_Witness ==
    /\ size.st = "Ok"
    /\ enc.st = "Ok"
    /\ prior # <<>>
    /\ val.k = "struct"
    /\ Len(val.xs) = 1
    /\ val.xs[1].k = "tuple_variant"
    /\ Len(val.xs[1].xs) = 2

(***************************************************************************)
(* The layout of the bytes to_string appended, read back element by        *)
(* element: every container with its place, its elements' tags and keys.   *)
(* The reading follows tags, keys and terminators only; it never uses a    *)
(* container's own length prefix.                                          *)
(***************************************************************************)
written == SubSeq(sink, Len(prior) + 1, Len(sink))

\* the item after n bytes from item q (a payload is bytes, or one run of
\* 2^30-byte units followed by bytes)
skip(s, q, n) ==
    IF n > 0 /\ s[q] < 0 THEN q + 1 + (n - (-s[q]) * Limb) ELSE q + n

\* the item holding the NUL that ends the cstring starting at item q
nul_from(s, q) == CHOOSE k \in q..Len(s) : s[k] = 0 /\ \A j \in q..(k - 1) : s[j] # 0

\* the first item after the payload of an element of the given tag whose
\* payload starts at item q (containers apart)
after_payload(s, q, tag) ==
    CASE tag = 1  -> q + 8
      [] tag = 2  -> skip(s, q + 4, i32_from_le_bytes(SubSeq(s, q, q + 3)))
      [] tag = 5  -> skip(s, q + 5, i32_from_le_bytes(SubSeq(s, q, q + 3)))
      [] tag = 8  -> q + 1
      [] tag = 10 -> q
      [] tag = 16 -> q + 4
      [] tag = 18 -> q + 8

RECURSIVE layout_doc(_, _, _)
RECURSIVE layout_elems(_, _, _, _)

\* the elements from item q up to the terminator: [end, elems, subs]
layout_elems(s, q, elems, subs) ==
    LET Sub(tag, key, at, r) ==
            layout_elems(s, r.end + 1,
                         Append(elems, [tag |-> tag, key |-> key, at |-> at]),
                         subs \o r.all)
        Elem(k) ==
            IF s[q] \in {3, 4}
            THEN Sub(s[q], SubSeq(s, q + 1, k - 1), k + 1,
                     layout_doc(s, k + 1, s[q]))
            ELSE layout_elems(s, after_payload(s, k + 1, s[q]),
                              Append(elems, [tag |-> s[q],
                                             key |-> SubSeq(s, q + 1, k - 1),
                                             at |-> k + 1]),
                              subs)
    IN  IF s[q] = 0 THEN [end |-> q, elems |-> elems, subs |-> subs]
        ELSE Elem(nul_from(s, q + 1))

\* the container starting at item p, and every container inside it, in the
\* order they start
layout_doc(s, p, tag) ==
    LET Here(r) ==
            [end |-> r.end,
             all |-> <<[at |-> p, end |-> r.end, tag |-> tag, elems |-> r.elems]>>
                     \o r.subs]
    IN  Here(layout_elems(s, p + 4, <<>>, <<>>))

\* the containers of the written document, the top-level one first
Documents == IF enc.st = "Ok" THEN layout_doc(written, 1, 0).all ELSE <<>>

\* the decimal digits of i < 100, as ASCII
Decimal(i) == IF i < 10 THEN <<48 + i>> ELSE <<48 + (i \div 10), 48 + (i % 10)>>

\* the kinds written as arrays, and the kinds written as the field value of
\* the value they wrap
ArrayKinds == {"seq", "tuple", "tuple_struct", "tuple_variant"}

(***************************************************************************)
(* C3  Length prefixes.                                                    *)
(***************************************************************************)
\* C3: in the bytes to_string wrote, the 4-byte little-endian integer at the
\* start of the top-level document and of every nested document or array
\* equals the number of bytes from there through the container's terminator.
C3_LengthPrefix ==
    \A i \in 1..Len(Documents) :
        LET c == Documents[i]
            n == slice_len(SubSeq(written, c.at, c.end))
        IN  /\ n.hi <= 1
            /\ i32_from_le_bytes(SubSeq(written, c.at, c.at + 3)) = n.hi * Limb + n.lo

\* the same, of the documents short enough for a signed 32-bit length
C3_LengthPrefixInRange ==
    \A i \in 1..Len(Documents) :
        LET c == Documents[i]
            n == slice_len(SubSeq(written, c.at, c.end))
            top == slice_len(written)
        IN  top.hi <= 1 =>
                /\ n.hi <= 1
                /\ i32_from_le_bytes(SubSeq(written, c.at, c.at + 3))
                       = n.hi * Limb + n.lo

(***************************************************************************)
(* C4  Array keys.                                                         *)
(***************************************************************************)
RECURSIVE ArrayLens(_)
RECURSIVE ArrayLensOf(_, _)

\* the element counts of the sequences, tuples, tuple structs and tuple
\* variants of v, in the order they are written
ArrayLens(v) ==
    (IF v.k \in ArrayKinds THEN <<Len(v.xs)>> ELSE <<>>) \o ArrayLensOf(v.xs, 1)

ArrayLensOf(xs, i) ==
    IF i > Len(xs) THEN <<>> ELSE ArrayLens(xs[i]) \o ArrayLensOf(xs, i + 1)

RECURSIVE Unwrapped(_)
\* the value written in place of v: a present optional value and a newtype
\* struct are written as the value they hold
Unwrapped(v) ==
    IF v.k \in {"some", "newtype_struct"} THEN Unwrapped(v.xs[1]) ELSE v

\* the array-documents written: those under tag 0x04, and the top-level
\* document of a sequence, tuple or tuple struct
Arrays ==
    LET idx == {i \in 1..Len(Documents) :
                    \/ Documents[i].tag = 4
                    \/ i = 1 /\ Unwrapped(val).k \in {"seq", "tuple", "tuple_struct"}}
        nth(j) == CHOOSE i \in idx : Cardinality({h \in idx : h < i}) = j - 1
    IN  [j \in 1..Cardinality(idx) |-> Documents[nth(j)]]

\* C4: a sequence, tuple, tuple struct or tuple variant of N elements is
\* written as an array-document of N elements whose keys are "0", "1", ...,
\* "N-1" in that order.
C4_ArrayKeys ==
    enc.st = "Ok" =>
        /\ [j \in 1..Len(Arrays) |-> Len(Arrays[j].elems)] = ArrayLens(val)
        /\ \A j \in 1..Len(Arrays) :
               \A e \in 1..Len(Arrays[j].elems) :
                   Arrays[j].elems[e].key = Decimal(e - 1)

\* a sequence of more than ten elements was written as a field
C4_Witness ==
    /\ enc.st = "Ok"
    /\ val.k = "struct"
    /\ Len(Arrays) = 1
    /\ Len(Arrays[1].elems) > 10
    /\ Arrays[1].elems[11].key = <<49, 48>>

(***************************************************************************)
(* C5  Enum variants.                                                      *)
(***************************************************************************)
RECURSIVE TagOf(_)
\* the element type tag the format gives a value
TagOf(v) ==
    CASE v.k \in {"f32", "f64"} -> 1
      [] v.k \in {"str", "unit_variant"} -> 2
      [] v.k \in {"struct", "newtype_variant", "tuple_variant", "struct_variant"} -> 3
      [] v.k \in {"seq", "tuple", "tuple_struct"} -> 4
      [] v.k = "bytes" -> 5
      [] v.k = "bool" -> 8
      [] v.k \in {"none", "unit", "unit_struct"} -> 10
      [] v.k \in {"i8", "i16", "i32"} -> 16
      [] v.k = "i64" -> 18
      [] v.k \in {"some", "newtype_struct"} -> TagOf(v.xs[1])
      [] OTHER -> 0

DataVariants == {"newtype_variant", "tuple_variant", "struct_variant"}

\* Documents[i] is the wrapper of the data-carrying variant v: one field,
\* keyed by the variant's name, holding the wrapped value, the array of the
\* positional values, or the document of the named fields
Wrapper(v, i) ==
    LET w == Documents[i]
    IN  /\ Len(w.elems) = 1
        /\ w.elems[1].key = v.name
        /\ CASE v.k = "newtype_variant" -> w.elems[1].tag = TagOf(v.xs[1])
             [] v.k = "tuple_variant" ->
                    /\ w.elems[1].tag = 4
                    /\ Documents[i + 1].at = w.elems[1].at
                    /\ Len(Documents[i + 1].elems) = Len(v.xs)
                    /\ \A e \in 1..Len(v.xs) :
                           Documents[i + 1].elems[e].tag = TagOf(v.xs[e])
             [] OTHER ->
                    /\ w.elems[1].tag = 3
                    /\ Documents[i + 1].at = w.elems[1].at
                    /\ [e \in 1..Len(v.xs) |-> Documents[i + 1].elems[e].key] = v.keys
                    /\ \A e \in 1..Len(v.xs) :
                           Documents[i + 1].elems[e].tag = TagOf(v.xs[e])

\* C5: a data-carrying variant is written as a wrapper document of exactly
\* one field, keyed by the variant's name: the wrapped value itself for a
\* newtype variant (Def(1999) is { "Def": 1999 } under tag 0x10), an array
\* (0x04) of the positional values for a tuple variant, a document (0x03) of
\* the named fields for a struct variant.  A unit variant is written as a
\* string element (0x02) holding the variant's name.  As a field of a parent
\* the wrapper is a 0x03 element under the parent's key.
C5_VariantEncoding ==
    enc.st = "Ok" =>
        /\ val.k \in DataVariants => Documents[1].tag = 0 /\ Wrapper(val, 1)
        /\ val = NewtypeVariant(Def, I32(1999)) =>
               written = <<14, 0, 0, 0, 16, 68, 101, 102, 0, 207, 7, 0, 0, 0>>
        /\ (val.k = "struct" /\ Len(val.xs) = 1 /\ val.xs[1].k \in DataVariants) =>
               /\ Documents[1].elems[1].tag = 3
               /\ Documents[1].elems[1].key = val.keys[1]
               /\ Documents[2].at = Documents[1].elems[1].at
               /\ Wrapper(val.xs[1], 2)
        /\ (val.k = "struct" /\ Len(val.xs) = 1 /\ val.xs[1].k = "unit_variant") =>
               LET e == Documents[1].elems[1]
                   name == val.xs[1].name
               IN  /\ e.tag = 2
                   /\ e.key = val.keys[1]
                   /\ SubSeq(written, e.at, e.at + 4 + Len(name))
                          = <<Len(name) + 1, 0, 0, 0>> \o name \o <<0>>

\* a tuple variant of two values was written as the only field of a struct
C5_Witness ==
    /\ enc.st = "Ok"
    /\ val.k = "struct"
    /\ Len(val.xs) = 1
    /\ val.xs[1].k = "tuple_variant"
    /\ Len(val.xs[1].xs) = 2
    /\ Len(Documents) = 3

(***************************************************************************)
(* C6  Unsigned integers and characters.                                   *)
(***************************************************************************)
RECURSIVE FirstStop(_)
RECURSIVE FirstStopOf(_, _)

UnsignedKinds == {"u8", "u16", "u32", "u64", "char"}

\* what first stops the serializer on its way through v, in the order the
\* parts of v are serialized: "unsigned" (an unsigned integer or character),
\* "abort" (a map, or a string or byte payload too long for the signed
\* 32-bit length field), or "none"
FirstStop(v) ==
    CASE v.k \in UnsignedKinds -> "unsigned"
      [] v.k = "map" -> "abort"
      [] v.k \in {"str", "bytes"} ->
            IF slice_len(v.s).hi >= 2 THEN "abort" ELSE "none"
      [] OTHER -> FirstStopOf(v.xs, 1)

FirstStopOf(xs, i) ==
    IF i > Len(xs) THEN "none"
    ELSE IF FirstStop(xs[i]) # "none" THEN FirstStop(xs[i])
    ELSE FirstStopOf(xs, i + 1)

RECURSIVE ContainsUnsigned(_)
ContainsUnsigned(v) ==
    v.k \in UnsignedKinds \/ \E i \in 1..Len(v.xs) : ContainsUnsigned(v.xs[i])

\* C6 (as stated): encoding any value that contains an unsigned integer or a
\* character, at any depth, fails with UnsignedIntNotInSpec, from to_string
\* and from serialised_size_of alike.
C6_UnsignedRejected ==
    ContainsUnsigned(val) =>
        /\ enc.st # "none" => enc.st = "UnsignedIntNotInSpec"
        /\ size.st # "none" => size.st = "UnsignedIntNotInSpec"

\* C6 (amended): encoding fails with UnsignedIntNotInSpec, from to_string and
\* from serialised_size_of alike, whenever the serializer reaches an unsigned
\* integer or a character, at any depth and with or without a key; when a
\* map or an over-long string or byte payload is serialized before the first
\* of them, encoding aborts there instead.
C6_UnsignedRejectedWhenReached ==
    /\ FirstStop(val) = "unsigned" =>
           /\ enc.st # "none" => enc.st = "UnsignedIntNotInSpec" /\ sink = prior
           /\ size.st # "none" => size.st = "UnsignedIntNotInSpec"
    /\ (ContainsUnsigned(val) /\ FirstStop(val) = "abort") =>
           /\ enc.st # "none" => enc.st = "panic"
           /\ size.st # "none" => size.st = "panic"

\* an unsigned integer two containers deep, after a value that was written,
\* was rejected by both entry points
C6_Witness ==
    /\ enc.st = "UnsignedIntNotInSpec"
    /\ size.st = "UnsignedIntNotInSpec"
    /\ val.k = "struct"
    /\ Len(val.xs) = 1
    /\ val.xs[1].k = "tuple_variant"
    /\ Len(val.xs[1].xs) = 2
    /\ val.xs[1].xs[1].k = "i32"
    /\ val.xs[1].xs[2].k \in UnsignedKinds

(***************************************************************************)
(* C7  Scalars without a key.                                              *)
(***************************************************************************)
PrimitiveKinds ==
    {"bool", "i8", "i16", "i32", "i64", "f32", "f64", "str", "bytes", "none",
     "unit", "unit_struct", "unit_variant"}

\* byte i (from 1) of the little-endian two's complement form of n
ByteOf(n, i) ==
    IF i <= 4 THEN (n \div (256 ^ (i - 1))) % 256 ELSE IF n < 0 THEN 255 ELSE 0

\* the payload the format gives a primitive value
Payload(v) ==
    LET len == slice_len(v.s).hi * Limb + slice_len(v.s).lo
    IN  CASE v.k = "bool" -> <<v.n>>
          [] v.k \in {"i8", "i16", "i32"} -> [i \in 1..4 |-> ByteOf(v.n, i)]
          [] v.k = "i64" -> [i \in 1..8 |-> ByteOf(v.n, i)]
          [] v.k = "f64" -> v.s
          [] v.k = "f32" ->
                IF v.s = <<0, 0, 128, 63>> THEN <<0, 0, 0, 0, 0, 0, 240, 63>>
                ELSE <<0, 0, 0, 160, 153, 153, 185, 63>>
          [] v.k = "str" -> [i \in 1..4 |-> ByteOf(len + 1, i)] \o v.s \o <<0>>
          [] v.k = "bytes" -> [i \in 1..4 |-> ByteOf(len, i)] \o <<0>> \o v.s
          [] v.k = "unit_variant" ->
                <<Len(v.name) + 1, 0, 0, 0>> \o v.name \o <<0>>
          [] OTHER -> <<>>

\* C7: a primitive value serialized with no key available (as the top-level
\* value) fails with NotSerializingStruct and no byte is written; with a key
\* available (as a field) what is written for it is its type tag, the key,
\* 0x00, and its payload.
C7_KeylessScalar ==
    /\ val.k \in PrimitiveKinds =>
           /\ enc.st # "none" => enc.st = "NotSerializingStruct" /\ sink = prior
           /\ size.st # "none" => size.st = "NotSerializingStruct"
    /\ (/\ val.k = "struct"
        /\ Len(val.xs) = 1
        /\ val.xs[1].k \in PrimitiveKinds
        /\ slice_len(val.xs[1].s).hi <= 1
        /\ enc.st # "none") =>
           /\ enc.st = "Ok"
           /\ SubSeq(written, 5, Len(written))
                  = <<TagOf(val.xs[1])>> \o val.keys[1] \o <<0>>
                    \o Payload(val.xs[1]) \o <<0>>
    /\ (val = StructV(<<<<102>>>>, <<I32(1999)>>) /\ enc.st # "none") =>
           written = <<12, 0, 0, 0, 16, 102, 0, 207, 7, 0, 0, 0>>

\* a string with no key was refused, the output left as it was
C7_Witness ==
    /\ val.k = "str"
    /\ val.s # <<>>
    /\ enc.st = "NotSerializingStruct"
    /\ sink = prior
    /\ prior # <<>>

\* a string was written as a field
C7_WitnessKeyed ==
    /\ val.k = "struct"
    /\ Len(val.xs) = 1
    /\ val.xs[1].k = "str"
    /\ enc.st = "Ok"

\* the total length the first four bytes declare (inputs of the model are
\* shorter than 2^16 bytes)
declared(input) == input[1] + 256 * input[2]

(***************************************************************************)
(* C8  Unsupported type tags.                                              *)
(***************************************************************************)
\* C8: when the tape builder reads an element type tag that is neither 0x00
\* nor of the supported subset, decoding fails with the fatal outcome; the
\* tag is never skipped with the scan going on over the bytes after it.
C8_UnsupportedTagFatal ==
    (/\ dec.st # "none"
     /\ declared(data) > 4
     /\ data[5] \notin SupportedTags \cup {0}) =>
        /\ dec.st = "panic"
        /\ dec.skipped = 0

(***************************************************************************)
(* C9  Bytes after the declared length.                                    *)
(***************************************************************************)
\* C9: for an input that is at least as long as the length L it declares,
\* the tape and the result of from_bytes are those of its first L bytes alone:
\* no byte at index L or beyond is read.
C9_TrailingIgnored ==
    (dec.st # "none" /\ declared(data) <= Len(data)) =>
        dec = from_bytes(SubSeq(data, 1, declared(data)), want)

\* an input with an element's worth of bytes after its declared length was
\* decoded
C9_Witness ==
    /\ dec.st = "Ok"
    /\ Len(data) = declared(data) + 5
    /\ Len(dec.tape) > 2
    /\ dec.val.k = "struct"

(***************************************************************************)
(* C10  Lengths beyond the signed 32-bit range.                            *)
(***************************************************************************)
\* C10: encoding never returns when a string payload, a byte payload or a
\* document is longer than the signed 32-bit length field can say: to_string
\* never succeeds having written a document of more than 2^31 - 1 bytes,
\* whose length field could only hold a wrapped value.
C10_OversizedAborts == enc.st = "Ok" => slice_len(written).hi <= 1

(***************************************************************************)
(* C14  The placeholder guard of terminate_document.                       *)
(***************************************************************************)
\* C14: in both passes, over the real buffer and over the counting sink,
\* every terminate_document finds the four bytes it is about to patch with
\* the length still zero, for every value and at every nesting: the
\* debug_assert_eq never fires.
C14_PlaceholderGuard == enc.guard /\ size.guard

\* both passes have closed a document nested in a document nested in a
\* document, each with an element written before the inner one was opened
C14_Witness ==
    /\ enc.st = "Ok"
    /\ size.st = "Ok"
    /\ val.k \in {"struct", "seq", "tuple_variant", "struct_variant"}
    /\ \E i \in 1..Len(val.xs) :
           /\ val.xs[i].k \in {"struct", "seq", "tuple_variant", "struct_variant"}
           /\ val.xs[i].xs # <<>>
    /\ enc.guard
    /\ size.guard

(***************************************************************************)
(* C19  to_string and the bytes already in the caller's buffer.            *)
(***************************************************************************)
\* C19: a to_string that does not return Ok leaves the caller's buffer
\* holding exactly the bytes it held before the call, because the real pass
\* fails only where the counting pass before it has already failed in the
\* same way; a to_string that returns Ok leaves the bytes that were in the
\* buffer in place and appends the encoded document after them.
C19_AllOrNothing ==
    enc.st # "none" =>
        /\ serialize(val, NoKey, BytesMut(prior)).st = serialised_size_of(val).st
        /\ enc.st # "Ok" => sink = prior
        /\ enc.st = "Ok" =>
               /\ Len(sink) > Len(prior)
               /\ SubSeq(sink, 1, Len(prior)) = prior
               /\ SubSeq(sink, Len(prior) + 1, Len(sink)) = to_string(val, <<>>).output

\* to_string has returned an error for a struct whose first field was
\* written before the second one was refused, on a buffer that was not empty
C19_Witness ==
    /\ enc.st \notin {"none", "Ok", "panic"}
    /\ prior # <<>>
    /\ sink = prior
    /\ val.k = "struct"
    /\ Len(val.xs) = 2
    /\ val.xs[1].k = "i32"
    /\ val.xs[2].k \in UnsignedKinds

\* to_string has returned Ok on a buffer that was not empty
C19_WitnessOk == enc.st = "Ok" /\ prior # <<>> /\ Len(sink) > Len(prior)

(***************************************************************************)
(* C15  The order of split_off and unsplit in a pass of the serializer.    *)
(***************************************************************************)
\* the buffer the real pass and the counting pass hand back
RealPass == serialize(val, NoKey, BytesMut(prior))

CountingPass == serialize(val, NoKey, CountingBytes(U(0, 0)))

\* the passes to_string makes: the counting one, and the real one after it
\* when the counting one returned Ok
Passes == IF CountingPass.st = "Ok" THEN {CountingPass, RealPass} ELSE {CountingPass}

\* C15 as stated: in every pass every split_off is made at the parent's
\* current length, the parent is neither appended to nor patched while the
\* buffer split from it is outstanding, a buffer is merged only into the
\* buffer it was split from and only when nothing split from it is still
\* outstanding, and every buffer split off is merged exactly once.
C15_SplitMergeDiscipline ==
    enc.st # "none" =>
        \A r \in Passes :
            /\ r.out.hist.ok
            /\ ~r.out.hist.open
            /\ r.out.hist.merges = r.out.hist.splits

\* C15, amended: the order holds in every pass, and every buffer split off
\* is merged exactly once in a pass that returns Ok; a pass that fails
\* inside a document has merged the documents it had finished and drops the
\* ones it had open, which are never merged.
C15_SplitMergeDisciplineWhenOk ==
    enc.st # "none" =>
        \A r \in Passes :
            /\ r.out.hist.ok
            /\ r.out.hist.merges <= r.out.hist.splits
            /\ r.out.hist.open <=> r.out.hist.merges < r.out.hist.splits
            /\ r.st = "Ok" => ~r.out.hist.open /\ r.out.hist.splits >= 1
            /\ r.out.hist.open => r.st # "Ok"

\* a pass has returned Ok after three split_off calls, one of them made
\* while another buffer was outstanding
C15_Witness ==
    /\ enc.st = "Ok"
    /\ val.k = "struct"
    /\ Len(val.xs) = 2
    /\ val.xs[2].k = "tuple_variant"
    /\ RealPass.out.hist.splits = 3
    /\ RealPass.out.hist.merges = 3

(***************************************************************************)
(* C13  The counter of the counting sink.                                  *)
(***************************************************************************)
\* the number of bytes the call made last appended
Appended ==
    CASE enc.op = "put_u8" -> U(0, 1)
      [] enc.op = "put_i32_le" -> U(0, 4)
      [] enc.op \in {"put_i64_le", "put_f64_le"} -> U(0, 8)
      [] enc.op = "put_slice" -> slice_len(enc.arg)
      [] OTHER -> U(0, 0)

Appends == {"put_u8", "put_i32_le", "put_i64_le", "put_f64_le", "put_slice"}

\* the sink the call made last was invoked on, before and after the call
SelfBefore ==
    IF enc.op = "unsplit" THEN enc.before[Len(enc.before) - 1]
    ELSE innermost(enc.before)

SelfAfter == IF enc.op = "split_off" THEN sink[Len(sink) - 1] ELSE innermost(sink)

\* an append on a CountingBytes adds the number of bytes appended to its
\* counter and does nothing else
AppendCounts ==
    enc.op \in Appends /\ SelfBefore.impl = "CountingBytes" =>
        /\ SelfAfter.bytes = usize_add(SelfBefore.bytes, Appended)
        /\ SelfAfter.data = <<>>
        /\ SelfAfter.fake_byte = SelfBefore.fake_byte

\* C13 as stated: every append on a CountingBytes only adds the number of
\* bytes appended to its counter, and neither split_off nor unsplit changes
\* the counter of the sink it is invoked on.
C13_CounterNoOps ==
    /\ AppendCounts
    /\ enc.op \in {"split_off", "unsplit"} /\ SelfBefore.impl = "CountingBytes" =>
           SelfAfter.bytes = SelfBefore.bytes

\* C13, amended: every append on a CountingBytes only adds the number of
\* bytes appended to its counter; split_off leaves the counter of the sink
\* it is invoked on as it is and returns a sink whose counter is zero;
\* unsplit adds the counter of the sink merged to the counter of the sink it
\* is invoked on.
C13_CounterMerges ==
    /\ AppendCounts
    /\ enc.op = "split_off" /\ SelfBefore.impl = "CountingBytes" =>
           /\ SelfAfter.bytes = SelfBefore.bytes
           /\ innermost(sink).bytes = U(0, 0)
    /\ enc.op = "unsplit" /\ SelfBefore.impl = "CountingBytes" =>
           SelfAfter.bytes = usize_add(SelfBefore.bytes, innermost(enc.before).bytes)

\* a counting sink that had counted bytes has had a sink that had counted
\* bytes of its own merged into it
C13_Witness ==
    /\ enc.op = "unsplit"
    /\ SelfBefore.impl = "CountingBytes"
    /\ SelfBefore.bytes # U(0, 0)
    /\ innermost(enc.before).bytes # U(0, 0)
    /\ SelfAfter.bytes # SelfBefore.bytes

(***************************************************************************)
(* C18  How far one element moves the builder's cursor.                    *)
(***************************************************************************)
\* the tag the turn taken last read, and where the NUL of its key is
TurnTag == scanned(data)[dec.from + 1]

KeyEnd ==
    CHOOSE z \in (dec.from + 2)..Len(scanned(data)) :
        /\ scanned(data)[z] = 0
        /\ \A i \in (dec.from + 2)..(z - 1) : scanned(data)[i] # 0

\* the length an element declares after its key (its two low bytes: the
\* elements here declare less than 65536)
DeclaredAfterKey == scanned(data)[KeyEnd + 1] + 256 * scanned(data)[KeyEnd + 2]

PayloadSize ==
    CASE TurnTag \in {1, 9, 17, 18} -> 8
      [] TurnTag = 16 -> 4
      [] TurnTag = 8 -> 1
      [] TurnTag = 10 -> 0
      [] TurnTag = 2 -> 4 + DeclaredAfterKey
      [] TurnTag = 5 -> 4 + 1 + DeclaredAfterKey
      [] TurnTag \in {3, 4} -> 4

\* the elements of ScanPieces that are cut short or declare too much
CutPieces == {<<16, 97, 0, 207>>, <<2, 97, 0, 9, 0, 0, 0, 104, 0>>, <<10, 97>>}

\* the whole elements of supported kinds, and the terminator
WholePieces == {p \in ScanPieces \ CutPieces : p[1] \in SupportedTags \cup {0}}

RECURSIVE Boundaries(_, _)
\* where the whole elements that follow one another from offset b of a body
\* start and end; the body is made of whole elements when its length is
\* among them
Boundaries(body, b) ==
    LET here == {p \in WholePieces :
                    /\ b + Len(p) <= Len(body)
                    /\ SubSeq(body, b + 1, b + Len(p)) = p}
    IN  IF here = {} THEN {b}
        ELSE {b} \cup Boundaries(body, b + Len(CHOOSE p \in here : TRUE))

\* C18: a turn of the loop over an element of a supported tag moves the
\* cursor by exactly 1 (the tag) + the length of the key + 1 (its NUL) + the
\* size of the payload of that tag: 8 for double, datetime, timestamp and
\* int64, 4 for int32, 1 for boolean, 0 for null, 4 + the declared length
\* for a string, 4 + 1 + the declared length for a binary, 4 for the header
\* of a document or an array; so in a body made of whole elements every tag
\* is read at the first byte of an element or at a terminator.
C18_CursorAdvance ==
    /\ dec.op = "turn" /\ dec.st = "scanning" /\ TurnTag \in SupportedTags =>
           dec.position = dec.from + 1 + (KeyEnd - (dec.from + 2)) + 1 + PayloadSize
    /\ dec.st \in {"scanning", "Ok"} =>
           LET Made(bs) == Len(scanned(data)) \in bs => dec.position \in bs
           IN  Made(Boundaries(scanned(data), 0))

\* the turn over a binary element that follows a string element has been
\* taken
C18_Witness ==
    /\ dec.op = "turn"
    /\ dec.st = "scanning"
    /\ TurnTag = 5
    /\ dec.from = 9
    /\ scanned(data)[1] = 2
    /\ dec.position = Len(scanned(data))
    /\ Len(dec.tape) = 5

(***************************************************************************)
(* C20  The tape builder comes to an end.                                  *)
(***************************************************************************)
\* a turn of the loop that did not abort has moved the cursor forward by at
\* least one byte, and never past the byte after the end of what is scanned
TurnAdvances ==
    dec.op = "turn" /\ dec.st = "scanning" =>
        /\ dec.position >= dec.from + 1
        /\ dec.position <= Len(scanned(data)) + 1

\* C20: on every input, every turn of the scan loop moves the cursor
\* forward by at least one byte, and the builder run to its end either
\* finishes with a tape or aborts: it does not loop for ever, whatever the
\* tags and the payloads are.
C20_Terminates == []TurnAdvances /\ <>(dec.st \in {"Ok", "panic"})

\* the builder has finished after turns over a tag the match has no arm
\* for
C20_Witness ==
    /\ dec.st = "Ok"
    /\ dec.op = "end"
    /\ dec.skipped >= 2
    /\ dec.position >= Len(scanned(data))

\* the builder has aborted in a turn that was not its first
C20_WitnessAbort == dec.st = "panic" /\ dec.op = "turn" /\ dec.from > 0

(***************************************************************************)
(* Claims about the tape cursor (SpecCursor).                              *)
(***************************************************************************)
\* the tape entry the call made last found in the cursor's window
Found == first(dec.tape, dec.from)

\* C11: a value requested through the document deserializer's
\* deserialize_any with a Key next on the tape fails with UnexpectedKey, and
\* with a DocumentEnd next it fails with UnexpectedMapEnd; no value is
\* produced either way.
C11_StructuralEntry ==
    dec.op = "deserialize_any" =>
        /\ Found = "Key" => dec.st = "UnexpectedKey" /\ dec.val = Nothing
        /\ Found = "DocumentEnd" => dec.st = "UnexpectedMapEnd" /\ dec.val = Nothing

\* an i32 asked for where the key of the first element stands
C11_Witness ==
    /\ dec.op = "deserialize_any"
    /\ want = Ty("i32", <<>>, <<>>, <<>>)
    /\ Found = "Key"
    /\ dec.st = "UnexpectedKey"

\* a value asked for where an empty document closes
C11_WitnessEnd ==
    /\ dec.op = "deserialize_any"
    /\ Found = "DocumentEnd"
    /\ dec.st = "UnexpectedMapEnd"

\* C12: a scalar, container or enum request made when no tape entry remains
\* fails with EndOfFile.
C12_EndOfFile ==
    /\ dec.op \in {"deserialize_any", "deserialize_seq", "deserialize_enum"}
    /\ Found = "None"
    => dec.st = "EndOfFile"

\* what each request gives on the exhausted tape
ExhaustedTapeErrors ==
    Found = "None" =>
        /\ dec.op = "deserialize_any" => dec.st = "EndOfFile"
        /\ dec.op = "deserialize_seq" => dec.st = "MalformedMapMissingKey"
        /\ dec.op = "deserialize_enum" => dec.st = "UnexpectedEnum"

\* the window deserialize_seq hands to visit_seq: past an ArrayStart
SeqStart == IF Found = "ArrayStart" THEN dec.from + 1 ELSE dec.from

\* whether the n pairs from SeqStart on are each a Key and an int32
PairsOfI32(n) ==
    \A i \in 1..n :
        /\ first(dec.tape, SeqStart + 2 * i - 2) = "Key"
        /\ first(dec.tape, SeqStart + 2 * i - 1) = "I32"

\* the key slot after the n pairs
KeySlot(n) == first(dec.tape, SeqStart + 2 * n)

\* C16, the key slot of a map: a Key is taken and yielded as the field name,
\* a DocumentEnd is taken and ends the map, and any other entry is
\* MalformedMapMissingKey.
MapKeySlot ==
    dec.op = "next_key_seed" =>
        CASE Found = "Key" ->
                /\ dec.st = "Ok"
                /\ dec.val = Str(dec.tape[dec.from].s)
                /\ dec.pos = dec.from + 1
          [] Found = "DocumentEnd" ->
                /\ dec.st = "Ok"
                /\ dec.val = Nothing
                /\ dec.pos = dec.from + 1
          [] OTHER -> dec.st = "MalformedMapMissingKey"

\* C16, a map taken whole (by IgnoredAny): on success the cursor stands
\* after a DocumentEnd, having taken a key and a value at a time
MapTakenWhole ==
    /\ dec.op = "deserialize_any"
    /\ want = IgnoredAny
    /\ Found = "DocumentStart"
    /\ dec.st = "Ok"
    => /\ dec.tape[dec.pos - 1].t = "DocumentEnd"
       /\ first(dec.tape, dec.from + 1) \in {"Key", "DocumentEnd"}

\* C16, a sequence of i32: the pairs of a Key and an int32 are taken until
\* the key slot holds something else; a DocumentEnd there ends the sequence,
\* whose elements are the int32 values whatever the keys are, and the cursor
\* is left just after that DocumentEnd; an entry there that is neither Key
\* nor DocumentEnd is MalformedMapMissingKey.
SeqOfI32 ==
    dec.op = "deserialize_seq" =>
        \A n \in 0..Len(dec.tape) :
            PairsOfI32(n) =>
                CASE KeySlot(n) = "DocumentEnd" ->
                        /\ dec.st = "Ok"
                        /\ dec.val.k = "seq"
                        /\ Len(dec.val.xs) = n
                        /\ \A i \in 1..n :
                              dec.val.xs[i] = I32(dec.tape[SeqStart + 2 * i - 1].n)
                        /\ dec.pos = SeqStart + 2 * n + 1
                        /\ dec.tape[dec.pos - 1].t = "DocumentEnd"
                  [] KeySlot(n) = "Key" -> dec.st # "Ok" \/ PairsOfI32(n + 1)
                  [] OTHER -> dec.st = "MalformedMapMissingKey"

\* C16: container consumption, map shape and sequence shape.
C16_ContainerConsumption == MapKeySlot /\ MapTakenWhole /\ SeqOfI32

\* a sequence of two elements whose keys are "a" and "0", taken whole
C16_Witness ==
    /\ dec.op = "deserialize_seq"
    /\ dec.st = "Ok"
    /\ Len(dec.val.xs) = 2
    /\ dec.tape[SeqStart].s # dec.tape[SeqStart + 2].s
    /\ dec.tape[dec.pos - 1].t = "DocumentEnd"

\* the DocumentEnd of a map taken in the key slot
C16_WitnessMapEnd ==
    /\ dec.op = "next_key_seed"
    /\ Found = "DocumentEnd"
    /\ dec.st = "Ok"
    /\ dec.pos = dec.from + 1

\* a document where a key of a sequence was expected
C16_WitnessMalformed ==
    /\ dec.op = "deserialize_seq"
    /\ Found = "DocumentStart"
    /\ dec.st = "MalformedMapMissingKey"

(***************************************************************************)
(* Claims about the arena (SpecCalls).                                     *)
(***************************************************************************)
\* the outcome of a call, without the arena it ran on
Outcome(r) == [st |-> r.st, val |-> r.val, tape |-> r.tape]

\* after every call the outcome is that of the same call on a thread whose
\* arena is new, and the arena of the calling thread holds the tape of this
\* call and nothing older
FreshEachCall ==
    dec.calls > 0 =>
        /\ Outcome(dec) = Outcome(with_borrow_mut(Bump, data, want))
        /\ dec.st = from_bytes(data, want).st
        /\ dec.val = from_bytes(data, want).val
        /\ dec.ALLOCATOR[dec.thread] = to_tape(data).tape

\* a call leaves the arena of every other thread as it was
OtherArenasKept ==
    \A t \in Threads : t # dec'.thread => dec'.ALLOCATOR[t] = dec.ALLOCATOR[t]

\* C17: over any sequence of from_bytes calls, failed ones included, each
\* call clears its thread's arena and starts from an empty tape, so its
\* result depends on its own input alone and is the one a new thread would
\* give; no call touches the arena of another thread.
C17_ArenaIsolation == []FreshEachCall /\ [][OtherArenasKept]_vars

\* a third call, made on thread 1 after a call on that thread panicked in
\* the middle of its scan, decodes { a: 1999 } while thread 2 holds a tape
\* of its own
C17_Witness ==
    /\ dec.calls = 3
    /\ dec.thread = 1
    /\ Len(dec.found) = 3
    /\ dec.found[3].t # "DocumentEnd"
    /\ dec.st = "Ok"
    /\ dec.val.k = "struct"
    /\ dec.val.xs = <<I32(1999)>>
    /\ dec.ALLOCATOR[1] = dec.tape
    /\ dec.ALLOCATOR[2] # Bump
    /\ dec.ALLOCATOR[2] # dec.ALLOCATOR[1]

\* a call that fails after a call that succeeded on the same thread
C17_WitnessFailed ==
    /\ dec.calls > 1
    /\ dec.found # Bump
    /\ dec.found[Len(dec.found)].t = "DocumentEnd"
    /\ dec.st \notin {"Ok", "panic"}

====
